---- MODULE Spec2Model ----
(***************************************************************************)
(* Model of backend/app/services/multimodal_service.py (MultiModalService) *)
(* and of the listing endpoints of backend/main.py that read its caches.   *)
(*                                                                         *)
(* Python values are modelled as follows.                                  *)
(*   str    a tuple of one-character strings, <<"a"," ","b">> for "a b"    *)
(*   float  an exact rational [n |-> numerator, d |-> denominator], d > 0  *)
(*   dict   a function from key strings to values; insertion-ordered       *)
(*          dicts that the code iterates are tuples of [key, val] records  *)
(*   JSON   a tagged record [t |-> "dict" | "list" | "num" | "str" |       *)
(*          "none", ...] (the value json.loads returns)                    *)
(***************************************************************************)
EXTENDS Integers, Sequences, FiniteSets, TLC

VARIABLES
    genai_client,        \* self.genai_client is set (a Gemini client exists)
    chart_cache,         \* self.chart_cache, in insertion order
    visual_text_links,   \* self.visual_text_links, in insertion order
    uuid_next,           \* the number of uuid4() keys drawn so far
    call,                \* the operation last invoked, with its arguments
    ret                  \* what that operation returned and did

vars == <<genai_client, chart_cache, visual_text_links, uuid_next, call, ret>>

----------------------------------------------------------------------------
(* Bounds of the model *)

MaxStrLen == 3      \* the longest query and text the scorer is run on alone
MaxCharts == 1      \* analyze_chart_to_text calls that reach the cache
ExtraPoints == 2    \* data points beyond the first 10 in the longest reply

----------------------------------------------------------------------------
(* Strings *)

Whitespace == {" ", "\n"}

UpperCase == <<"A", "B", "C", "D", "E", "F", "G", "H", "I", "J", "K", "L", "M",
               "N", "O", "P", "Q", "R", "S", "T", "U", "V", "W", "X", "Y", "Z">>

LowerCase == <<"a", "b", "c", "d", "e", "f", "g", "h", "i", "j", "k", "l", "m",
               "n", "o", "p", "q", "r", "s", "t", "u", "v", "w", "x", "y", "z">>

\* str.lower() on one character
LowerChar(c) ==
    IF \E i \in 1..Len(UpperCase) : UpperCase[i] = c
    THEN LowerCase[CHOOSE i \in 1..Len(UpperCase) : UpperCase[i] = c]
    ELSE c

\* str.lower()
Lower(s) == [i \in 1..Len(s) |-> LowerChar(s[i])]

\* str.split() with no separator: scan left to right, cut at runs of whitespace,
\* never yield an empty token.  acc is the list of finished tokens, cur the
\* token being read.
RECURSIVE SplitFrom(_, _, _, _)
SplitFrom(s, i, acc, cur) ==
    IF i > Len(s)
    THEN IF cur = <<>> THEN acc ELSE Append(acc, cur)
    ELSE IF s[i] \in Whitespace
         THEN SplitFrom(s, i + 1, IF cur = <<>> THEN acc ELSE Append(acc, cur), <<>>)
         ELSE SplitFrom(s, i + 1, acc, Append(cur, s[i]))

Split(s) == SplitFrom(s, 1, <<>>, <<>>)

\* set(list)
ToSet(l) == {l[i] : i \in 1..Len(l)}

\* s[:n]
Prefix(s, n) == SubSeq(s, 1, IF Len(s) < n THEN Len(s) ELSE n)


\* The string literals of the service, as tuples of characters
Lit ==
    [AnalysisFailed |->
        <<"A", "n", "a", "l", "y", "s", "i", "s", " ", "f", "a", "i", "l",
          "e", "d">>,
     NoResponseGenerated |->
        <<"N", "o", " ", "r", "e", "s", "p", "o", "n", "s", "e", " ", "g",
          "e", "n", "e", "r", "a", "t", "e", "d">>,
     unknown |->
        <<"u", "n", "k", "n", "o", "w", "n">>,
     chart |->
        <<"c", "h", "a", "r", "t">>,
     UnknownChart |->
        <<"U", "n", "k", "n", "o", "w", "n", " ", "C", "h", "a", "r", "t">>,
     UntitledChart |->
        <<"U", "n", "t", "i", "t", "l", "e", "d", " ", "C", "h", "a", "r",
          "t">>,
     ChartAnalysisFailed |->
        <<"C", "h", "a", "r", "t", " ", "a", "n", "a", "l", "y", "s", "i",
          "s", " ", "f", "a", "i", "l", "e", "d">>,
     DescriptionFailed |->
        <<"C", "h", "a", "r", "t", " ", "d", "e", "s", "c", "r", "i", "p",
          "t", "i", "o", "n", " ", "g", "e", "n", "e", "r", "a", "t", "i",
          "o", "n", " ", "f", "a", "i", "l", "e", "d">>,
     ChartOfType |->
        <<"C", "h", "a", "r", "t", " ", "o", "f", " ", "t", "y", "p", "e",
          " ">>,
     WithTitle |->
        <<" ", "w", "i", "t", "h", " ", "t", "i", "t", "l", "e", " ">>,
     KeyStatistics |->
        <<"\n", "\n", "K", "e", "y", " ", "S", "t", "a", "t", "i", "s", "t",
          "i", "c", "s", ":", " ">>,
     HighestValue |->
        <<"H", "i", "g", "h", "e", "s", "t", " ", "v", "a", "l", "u", "e",
          ":", " ">>,
     LowestValue |->
        <<"L", "o", "w", "e", "s", "t", " ", "v", "a", "l", "u", "e", ":",
          " ">>,
     Average |->
        <<"A", "v", "e", "r", "a", "g", "e", ":", " ">>,
     AverageValue |->
        <<"A", "v", "e", "r", "a", "g", "e", " ", "v", "a", "l", "u", "e",
          ":", " ">>,
     ThisIsA |->
        <<"T", "h", "i", "s", " ", "i", "s", " ", "a", " ">>,
     ChartTitle |->
        <<"C", "h", "a", "r", "t", " ", "t", "i", "t", "l", "e", ":", " ">>,
     Trend |->
        <<"T", "r", "e", "n", "d", ":", " ">>,
     None |->
        <<"N", "o", "n", "e">>,
     ColonSpace |->
        <<":", " ">>,
     SpaceParen |->
        <<" ", "(">>,
     Paren |->
        <<")">>,
     Space |->
        <<" ">>,
     NoResponse |->
        <<"N", "o", " ", "r", "e", "s", "p", "o", "n", "s", "e">>,
     general |->
        <<"g", "e", "n", "e", "r", "a", "l">>,
     BasicProximity |->
        <<"B", "a", "s", "i", "c", " ", "p", "r", "o", "x", "i", "m", "i",
          "t", "y", " ", "r", "e", "l", "a", "t", "i", "o", "n", "s", "h",
          "i", "p">>,
     chart_ |->
        <<"c", "h", "a", "r", "t", "_">>,
     link_ |->
        <<"l", "i", "n", "k", "_">>,
     SpaceChart |->
        <<" ", "C", "h", "a", "r", "t">>,
     VisualTextLink |->
        <<"V", "i", "s", "u", "a", "l", "-", "T", "e", "x", "t", " ", "L",
          "i", "n", "k", " ", "(">>,
     Relationship |->
        <<"R", "e", "l", "a", "t", "i", "o", "n", "s", "h", "i", "p", ":",
          " ">>,
     DotSpace |->
        <<".", " ">>,
     VisualContext |->
        <<"\n", "\n", "V", "i", "s", "u", "a", "l", " ", "C", "o", "n", "t",
          "e", "x", "t", ":", " ">>,
     RelatedImage |->
        <<"R", "e", "l", "a", "t", "e", "d", " ", "i", "m", "a", "g", "e",
          ":", " ">>,
     ChartData |->
        <<"C", "h", "a", "r", "t", " ", "d", "a", "t", "a", ":", " ">>,
     graph |->
        <<"g", "r", "a", "p", "h">>,
     diagram |->
        <<"d", "i", "a", "g", "r", "a", "m">>]

\* The strings of the requests and replies the operations are run on
Txt ==
    [bar |->
        <<"b", "a", "r">>,
     pie |->
        <<"p", "i", "e">>,
     T |->
        <<"T">>,
     up |->
        <<"u", "p">>,
     i1 |->
        <<"n", "o", "t", "e", " ", "o", "n", "e">>,
     abc |->
        <<"a", " ", "b", " ", "c">>,
     abcd |->
        <<"a", " ", "b", " ", "c", " ", "d">>,
     ax |->
        <<"a", " ", "x">>,
     ThisIsABar |->
        <<"T", "h", "i", "s", " ", "i", "s", " ", "a", " ", "b", "a", "r">>,
     Q1_10 |->
        <<"Q", "1", ":", " ", "1", "0">>,
     Q2_20 |->
        <<"Q", "2", ":", " ", "2", "0">>,
     illustration |->
        <<"i", "l", "l", "u", "s", "t", "r", "a", "t", "i", "o", "n">>,
     example |->
        <<"e", "x", "a", "m", "p", "l", "e">>,
     d1 |->
        <<"d", "1">>,
     d2 |->
        <<"d", "2">>,
     d1_i1 |->
        <<"d", "1", "-", "i", "1">>,
     d1_i2 |->
        <<"d", "1", "-", "i", "2">>,
     photo |->
        <<"p", "h", "o", "t", "o">>,
     xy |->
        <<"x", " ", "y">>,
     ab |->
        <<"a", " ", "b">>,
     cd |->
        <<"c", " ", "d">>,
     e |->
        <<"e">>,
     gh |->
        <<"g", " ", "h">>,
     t1 |->
        <<"t", "1">>,
     t2 |->
        <<"t", "2">>,
     t3 |->
        <<"t", "3">>,
     Q10 |->
        <<"a", " ", "b", " ", "c", " ", "d", " ", "e", " ", "f", " ", "g",
          " ", "h", " ", "i", " ", "j">>]

----------------------------------------------------------------------------
(* Floats, as exact rationals *)

RECURSIVE GCD(_, _)
GCD(a, b) == IF b = 0 THEN a ELSE GCD(b, a % b)

Abs(x) == IF x < 0 THEN -x ELSE x

Rat(n, d) ==
    LET g == GCD(Abs(n), d) IN [n |-> n \div g, d |-> d \div g]

RatMul(a, b) == Rat(a.n * b.n, a.d * b.d)
RatLt(a, b) == a.n * b.d < b.n * a.d
RatLe(a, b) == a.n * b.d <= b.n * a.d
RatEq(a, b) == a.n * b.d = b.n * a.d
RatMin(a, b) == IF RatLt(b, a) THEN b ELSE a

Zero == Rat(0, 1)
One == Rat(1, 1)

----------------------------------------------------------------------------
(* RelevanceScorer *)

\* A plausible slip: the text is compared without lower-casing it.
_calculate_text_relevance_CaseSensitive(query, text) ==
    LET query_words == ToSet(Split(Lower(query)))
        text_words == ToSet(Split(text))
        overlap == Cardinality(query_words \cap text_words)
    IN  Rat(overlap, IF Cardinality(query_words) > 1 THEN Cardinality(query_words) ELSE 1)

\* A plausible slip: the test is turned around and asks whether the words of
\* the text are among the words of the query.
_calculate_text_relevance_TextInQuery(query, text) ==
    LET query_words == ToSet(Split(Lower(query)))
        text_words == ToSet(Split(Lower(text)))
    IN  IF text_words \subseteq query_words THEN One ELSE Zero

\* __calculate_text_relevance: no statement of the body can raise for two
\* strings, so the except branch (return 0.0) is not taken.
_calculate_text_relevance(query, text) ==
    LET query_words == ToSet(Split(Lower(query)))
        text_words == ToSet(Split(Lower(text)))
        overlap == Cardinality(query_words \cap text_words)
    IN  Rat(overlap, IF Cardinality(query_words) > 1 THEN Cardinality(query_words) ELSE 1)

----------------------------------------------------------------------------
(* The relevance scorer on its own: every query and text over a small      *)
(* alphabet.                                                               *)

Alphabet == {"a", "A", "b", " "}

RECURSIVE StringsUpTo(_)
StringsUpTo(n) ==
    IF n = 0 THEN {<<>>}
    ELSE LET shorter == StringsUpTo(n - 1)
         IN  shorter \cup {Append(s, c) : s \in shorter, c \in Alphabet}

RelStrings == StringsUpTo(MaxStrLen)

NoCall == [op |-> "none"]
NoRet == [done |-> FALSE]

InitRel ==
    /\ genai_client = TRUE
    /\ chart_cache = <<>>
    /\ visual_text_links = <<>>
    /\ uuid_next = 0
    /\ call \in {[op |-> "relevance", query |-> q, text |-> t] :
                    q \in RelStrings, t \in RelStrings}
    /\ ret = NoRet

ScoreRelevance ==
    /\ call.op = "relevance"
    /\ ~ret.done
    /\ ret' = [done |-> TRUE, value |-> _calculate_text_relevance(call.query, call.text)]
    /\ UNCHANGED <<genai_client, chart_cache, visual_text_links, uuid_next, call>>

NextRel == ScoreRelevance

SpecRel == InitRel /\ [][NextRel]_vars

\* The tokens of s, stated without the scanner: the lower-cased maximal runs
\* of non-whitespace characters.
TokensOf(s) ==
    {Lower(SubSeq(s, i, j)) : <<i, j>> \in
        {p \in (1..Len(s)) \X (1..Len(s)) :
            /\ p[1] <= p[2]
            /\ \A k \in p[1]..p[2] : s[k] \notin Whitespace
            /\ (p[1] = 1 \/ s[p[1] - 1] \in Whitespace)
            /\ (p[2] = Len(s) \/ s[p[2] + 1] \in Whitespace)}}

\* C10: relevance(query, text) is |queryTokens \cap textTokens| / max(|queryTokens|, 1)
\* over the lower-cased whitespace-split token sets; it lies in [0,1] and is 0
\* when the query has no token.
C10_RelevanceFormula ==
    (call.op = "relevance" /\ ret.done) =>
        LET Q == TokensOf(call.query)
            T == TokensOf(call.text)
            m == IF Cardinality(Q) > 1 THEN Cardinality(Q) ELSE 1
        IN  /\ ret.value.n * m = Cardinality(Q \cap T) * ret.value.d
            /\ RatLe(Zero, ret.value) /\ RatLe(ret.value, One)
            /\ (Q = {} => ret.value.n = 0)

\* A scored pair where case and repeated tokens matter: the query repeats a
\* token in two cases and the text holds it in upper case.
C10_Witness ==
    /\ call.op = "relevance" /\ ret.done
    /\ call.query = <<"a", " ", "A">>
    /\ call.text = <<"A", " ", "b">>
    /\ ret.value = One

\* the pieces of s between its whitespace characters, the empty ones too
RECURSIVE FieldsFrom(_, _, _)
FieldsFrom(s, i, piece) ==
    IF i > Len(s) THEN <<piece>>
    ELSE IF s[i] \in Whitespace THEN <<piece>> \o FieldsFrom(s, i + 1, <<>>)
    ELSE FieldsFrom(s, i + 1, Append(piece, s[i]))

Fields(s) == FieldsFrom(s, 1, <<>>)

\* q has no duplicate and no empty token
DistinctTokens(q) ==
    LET f == Fields(q)
    IN  /\ \A i \in 1..Len(f) : f[i] # <<>>
        /\ \A i, j \in 1..Len(f) : i # j => f[i] # f[j]

\* C11: relevance(q, "") is 0 for every q, and relevance(q, q) is 1 for a q
\* that has no duplicate and no empty token.
C11_EmptyTextAndSelf ==
    (call.op = "relevance" /\ ret.done) =>
        /\ call.text = <<>> => ret.value = Zero
        /\ (call.text = call.query /\ DistinctTokens(call.query)) => ret.value = One

\* a query of two different tokens scored against itself
C11_Witness ==
    /\ call.op = "relevance" /\ ret.done
    /\ call.query = <<"a", " ", "b">>
    /\ call.text = call.query
    /\ DistinctTokens(call.query)
    /\ ret.value = One

----------------------------------------------------------------------------
(* Values that json.loads returns, and what the code does with them *)

PyDict(f) == [t |-> "dict", d |-> f]
PyList(l) == [t |-> "list", l |-> l]
PyStr(s) == [t |-> "str", s |-> s]
PyInt(i) == [t |-> "int", i |-> i]
PyFloat(n, d) == [t |-> "float", x |-> Rat(n, d)]
PyNone == [t |-> "none"]
EmptyDict == PyDict(<<>>)

\* bool(v)
Truthy(v) ==
    CASE v.t = "dict" -> DOMAIN v.d # {}
      [] v.t = "list" -> Len(v.l) > 0
      [] v.t = "str" -> Len(v.s) > 0
      [] v.t = "int" -> v.i # 0
      [] v.t = "float" -> v.x.n # 0
      [] v.t = "none" -> FALSE

\* v.get(key, default) for a dict v
Get(v, key, default) == IF key \in DOMAIN v.d THEN v.d[key] ELSE default

\* hasattr(v, "get"): only a dict has the method
HasGet(v) == v.t = "dict"

\* `key in v` raises TypeError for a number or None.  (A list or a str holds a
\* membership test of its own; the replies of this model hold neither there.)
InRaises(v) == v.t \in {"int", "float", "none"}
In(key, v) ==
    CASE v.t = "dict" -> key \in DOMAIN v.d

\* `for x in v` and v[:n] raise TypeError unless v is a sequence
IsList(v) == v.t = "list"

Digits == <<"0", "1", "2", "3", "4", "5", "6", "7", "8", "9">>

\* str(n) for an int n >= 0
RECURSIVE IntStr(_)
IntStr(n) ==
    IF n < 10 THEN <<Digits[n + 1]>>
    ELSE Append(IntStr(n \div 10), Digits[(n % 10) + 1])


\* f"{v}": the text an f-string puts for v
Format(v) ==
    CASE v.t = "str" -> v.s
      [] v.t = "int" -> IntStr(v.i)
      [] v.t = "none" -> Lit.None

----------------------------------------------------------------------------
(* The model capability.  A reply is what the remote model does with one   *)
(* request:                                                                *)
(*   [kind |-> "raise"]            the call raises                         *)
(*   [kind |-> "empty"]            it answers with no text                 *)
(*   [kind |-> "prose", s |-> ..]  it answers text that is not JSON        *)
(*   [kind |-> "json", v |-> ..]   it answers the JSON text of value v     *)
(* A response is the str handed back to the stage: [json |-> FALSE, s]     *)
(* for text json.loads rejects, [json |-> TRUE, v] for text it parses to v.*)

Text(s) == [json |-> FALSE, s |-> s]

\* _analyze_with_gemini: the except branch turns a raise into the sentinel
_analyze_with_gemini(reply) ==
    CASE reply.kind = "raise" -> Text(Lit.AnalysisFailed)
      [] reply.kind = "empty" -> Text(Lit.NoResponseGenerated)
      [] reply.kind = "prose" -> Text(reply.s)
      [] reply.kind = "json" -> [json |-> TRUE, v |-> reply.v]

----------------------------------------------------------------------------
(* ChartAnalyzer.  Every stage returns [val, failed, asked]: its value,    *)
(* whether its `except Exception` handler ran, whether it asked the model. *)

StageResult(val, failed, asked) == [val |-> val, failed |-> failed, asked |-> asked]

\* _identify_chart_structure
_identify_chart_structure(client, reply) ==
    IF ~client
    THEN StageResult(PyDict([type |-> PyStr(Lit.unknown), confidence |-> PyFloat(0, 1)]),
                     FALSE, FALSE)
    ELSE LET response == _analyze_with_gemini(reply)
         IN  IF response.json
             THEN StageResult(response.v, FALSE, TRUE)
             ELSE StageResult(PyDict([type |-> PyStr(Lit.chart),
                                      title |-> PyStr(Lit.UnknownChart),
                                      confidence |-> PyFloat(3, 10),
                                      raw_response |-> PyStr(response.s)]),
                              FALSE, TRUE)

\* _extract_chart_data
_extract_chart_data(client, metadata, reply) ==
    IF ~HasGet(metadata)
    THEN StageResult(EmptyDict, TRUE, FALSE)         \* metadata.get raises
    ELSE IF ~client
    THEN StageResult(EmptyDict, FALSE, FALSE)
    ELSE LET response == _analyze_with_gemini(reply)
         IN  IF response.json
             THEN StageResult(response.v, FALSE, TRUE)
             ELSE StageResult(PyDict([raw_analysis |-> PyStr(response.s),
                                      data_points |-> PyList(<<>>)]),
                              FALSE, TRUE)

\* The "Key Statistics" text appended to the description, or a raise
KeyStatisticsRaises(stats) ==
    \/ InRaises(stats)
    \/ In("highest", stats) /\ ~HasGet(stats.d["highest"])
    \/ In("lowest", stats) /\ ~HasGet(stats.d["lowest"])

KeyStatisticsText(stats) ==
    Lit.KeyStatistics
    \o (IF In("highest", stats)
        THEN Lit.HighestValue \o Format(Get(stats.d["highest"], "value", PyNone)) \o Lit.Space
        ELSE <<>>)
    \o (IF In("lowest", stats)
        THEN Lit.LowestValue \o Format(Get(stats.d["lowest"], "value", PyNone)) \o Lit.Space
        ELSE <<>>)
    \o (IF In("average", stats)
        THEN Lit.Average \o Format(stats.d["average"]) \o Lit.Space
        ELSE <<>>)

\* _generate_chart_text_description
_generate_chart_text_description(client, metadata, data_insights, reply) ==
    IF ~HasGet(metadata)
    THEN StageResult(Lit.DescriptionFailed, TRUE, FALSE)
    ELSE LET chart_type == Get(metadata, "type", PyStr(Lit.chart))
             title == Get(metadata, "title", PyStr(Lit.UntitledChart))
             description ==
                 IF client
                 THEN _analyze_with_gemini(reply).s
                 ELSE Lit.ChartOfType \o Format(chart_type) \o Lit.WithTitle \o Format(title)
         IN  IF ~HasGet(data_insights)
             THEN StageResult(Lit.DescriptionFailed, TRUE, client)
             ELSE LET stats == Get(data_insights, "key_statistics", PyNone)
                  IN  IF ~Truthy(stats)
                      THEN StageResult(description, FALSE, client)
                      ELSE IF KeyStatisticsRaises(stats)
                      THEN StageResult(Lit.DescriptionFailed, TRUE, client)
                      ELSE StageResult(description \o KeyStatisticsText(stats),
                                       FALSE, client)

\* _extract_queryable_facts runs its statements in order inside one try; a
\* raise ends it with the facts appended so far.  st = [facts, ok] is the
\* list and whether the body is still running.
Running(facts) == [facts |-> facts, ok |-> TRUE]
Raised(facts) == [facts |-> facts, ok |-> FALSE]

FactLimit == 10

TypeFact(st, metadata) ==
    IF ~st.ok THEN st
    ELSE IF ~HasGet(metadata) THEN Raised(st.facts)
    ELSE IF Truthy(Get(metadata, "type", PyNone))
    THEN Running(Append(st.facts, PyStr(Lit.ThisIsA \o Format(metadata.d["type"]))))
    ELSE st

TitleFact(st, metadata) ==
    IF ~st.ok THEN st
    ELSE IF Truthy(Get(metadata, "title", PyNone))
    THEN Running(Append(st.facts, PyStr(Lit.ChartTitle \o Format(metadata.d["title"]))))
    ELSE st

\* the loop over data_points[:10]
RECURSIVE PointLoop(_, _, _)
PointLoop(facts, points, i) ==
    IF i > Len(points) THEN Running(facts)
    ELSE LET point == points[i]
         IN  IF InRaises(point) THEN Raised(facts)
             ELSE IF In("category", point) /\ In("value", point)
             THEN PointLoop(Append(facts, PyStr(Format(point.d["category"]) \o Lit.ColonSpace
                                                \o Format(point.d["value"]))),
                            points, i + 1)
             ELSE PointLoop(facts, points, i + 1)

\* sliced is FALSE only where the [:10] slice is left out
PointFacts(st, data_insights, sliced) ==
    IF ~st.ok THEN st
    ELSE IF ~HasGet(data_insights) THEN Raised(st.facts)
    ELSE LET data_points == Get(data_insights, "data_points", PyNone)
         IN  IF ~Truthy(data_points) THEN st
             ELSE IF ~IsList(data_points) THEN Raised(st.facts)
             ELSE PointLoop(st.facts,
                            IF sliced THEN Prefix(data_points.l, FactLimit)
                            ELSE data_points.l, 1)

TrendFacts(st, data_insights) ==
    IF ~st.ok THEN st
    ELSE LET trends == Get(data_insights, "trends", PyNone)
         IN  IF ~Truthy(trends) THEN st
             ELSE IF ~IsList(trends) THEN Raised(st.facts)
             ELSE Running(st.facts \o [i \in 1..Len(trends.l) |->
                                          PyStr(Lit.Trend \o Format(trends.l[i]))])

\* one of the "highest" / "lowest" statements
ExtremeFact(st, stats, key, label) ==
    IF ~st.ok THEN st
    ELSE IF InRaises(stats) THEN Raised(st.facts)
    ELSE IF In(key, stats) /\ Truthy(stats.d[key])
    THEN IF ~HasGet(stats.d[key]) THEN Raised(st.facts)
         ELSE Running(Append(st.facts,
                  PyStr(label \o Format(Get(stats.d[key], "value", PyNone)) \o Lit.SpaceParen
                        \o Format(Get(stats.d[key], "category", PyNone)) \o Lit.Paren)))
    ELSE st

AverageFact(st, stats) ==
    IF ~st.ok THEN st
    ELSE IF InRaises(stats) THEN Raised(st.facts)
    ELSE IF In("average", stats)
    THEN Running(Append(st.facts, PyStr(Lit.AverageValue \o Format(stats.d["average"]))))
    ELSE st

InsightFacts(st, data_insights) ==
    IF ~st.ok THEN st
    ELSE LET insights == Get(data_insights, "insights", PyNone)
         IN  IF ~Truthy(insights) THEN st
             ELSE IF ~IsList(insights) THEN Raised(st.facts)
             ELSE Running(st.facts \o insights.l)

\* the statements drawn from key_statistics
StatisticsFacts(st, data_insights) ==
    LET stats == IF st.ok THEN Get(data_insights, "key_statistics", EmptyDict) ELSE PyNone
    IN  AverageFact(ExtremeFact(ExtremeFact(st, stats, "highest", Lit.HighestValue),
                                stats, "lowest", Lit.LowestValue),
                    stats)

FactBody(metadata, data_insights, sliced) ==
    InsightFacts(
        StatisticsFacts(
            TrendFacts(
                PointFacts(TitleFact(TypeFact(Running(<<>>), metadata), metadata),
                           data_insights, sliced),
                data_insights),
            data_insights),
        data_insights)

\* A plausible slip: every data point becomes a fact, not only the first 10.
_extract_queryable_facts_NoLimit(metadata, data_insights) ==
    LET st == FactBody(metadata, data_insights, FALSE)
    IN  StageResult(st.facts, ~st.ok, FALSE)

\* A plausible slip: `return []` in the handler, so a failure loses the facts
\* appended before it.
_extract_queryable_facts_EmptyOnFailure(metadata, data_insights) ==
    LET st == FactBody(metadata, data_insights, TRUE)
    IN  StageResult(IF st.ok THEN st.facts ELSE <<>>, ~st.ok, FALSE)

\* _extract_queryable_facts (text_content is a parameter the body never reads)
_extract_queryable_facts(metadata, data_insights) ==
    LET st == FactBody(metadata, data_insights, TRUE)
    IN  StageResult(st.facts, ~st.ok, FALSE)

\* ChartAnalysis(chart_type, data_insights, text_content, confidence)
ChartAnalysis(chart_type, data_insights, text_content, confidence) ==
    [chart_type |-> chart_type, data_insights |-> data_insights,
     text_content |-> text_content, confidence |-> confidence,
     queryable_facts |-> <<>>]

DefaultAnalysis ==
    ChartAnalysis(PyStr(Lit.unknown), EmptyDict, Lit.ChartAnalysisFailed, PyFloat(0, 1))

\* The body of analyze_chart_to_text for the replies r1, r2, r3 of the model to
\* the requests of stages 1 to 3.  Gives the analysis returned, whether the
\* outer handler ran, the cache afterwards and what each stage did.  With
\* strict, a failure inside a stage reaches the outer handler.
\* s1 to s4 are the results of the four stages.
Assemble(cache, uuid, strict, s1, s2, s3, s4) ==
    LET failed == <<s1.failed, s2.failed, s3.failed, s4.failed>>
        asked == <<s1.asked, s2.asked, s3.asked, s4.asked>>
    IN  IF ~HasGet(s1.val) \/ (strict /\ \E k \in 1..4 : failed[k])
        THEN \* chart_metadata.get raises: the outer handler returns the default
             [analysis |-> DefaultAnalysis, handler |-> TRUE, cache |-> cache,
              uuid |-> uuid, failed |-> failed, asked |-> asked,
              chart_metadata |-> s1.val, data_insights |-> s2.val]
        ELSE LET analysis ==
                     [ChartAnalysis(Get(s1.val, "type", PyStr(Lit.unknown)),
                                    s2.val, s3.val,
                                    Get(s1.val, "confidence", PyFloat(1, 2)))
                      EXCEPT !.queryable_facts = s4.val]
             IN  [analysis |-> analysis, handler |-> FALSE,
                  cache |-> Append(cache, [key |-> uuid + 1, val |-> analysis]),
                  uuid |-> uuid + 1, failed |-> failed, asked |-> asked,
                  chart_metadata |-> s1.val, data_insights |-> s2.val]

AfterDescription(cache, uuid, strict, s1, s2, s3) ==
    Assemble(cache, uuid, strict, s1, s2, s3, _extract_queryable_facts(s1.val, s2.val))

AfterData(client, cache, uuid, r3, strict, s1, s2) ==
    AfterDescription(cache, uuid, strict, s1, s2,
                     _generate_chart_text_description(client, s1.val, s2.val, r3))

AfterStructure(client, cache, uuid, r2, r3, strict, s1) ==
    AfterData(client, cache, uuid, r3, strict, s1,
              _extract_chart_data(client, s1.val, r2))

ChartRun(client, cache, uuid, r1, r2, r3, strict) ==
    AfterStructure(client, cache, uuid, r2, r3, strict,
                   _identify_chart_structure(client, r1))

\* A plausible slip: the stages re-raise, so any stage failure ends in the
\* outer handler.
analyze_chart_to_text_StagesRaise(client, cache, uuid, r1, r2, r3) ==
    ChartRun(client, cache, uuid, r1, r2, r3, TRUE)

\* A plausible slip: a cache of one entry, where the new analysis takes the
\* place of the one before.
analyze_chart_to_text_OneSlot(client, cache, uuid, r1, r2, r3) ==
    LET out == ChartRun(client, cache, uuid, r1, r2, r3, FALSE)
    IN  IF out.handler THEN out
        ELSE [out EXCEPT !.cache = <<[key |-> uuid + 1, val |-> out.analysis]>>]

\* A plausible slip: the confidence is recombined across the stages, a
\* failed description stage bringing it down to 0.
analyze_chart_to_text_Recombined(client, cache, uuid, r1, r2, r3) ==
    LET out == ChartRun(client, cache, uuid, r1, r2, r3, FALSE)
    IN  IF out.handler \/ ~out.failed[3] THEN out
        ELSE [out EXCEPT !.analysis.confidence = PyFloat(0, 1),
                         !.cache[Len(cache) + 1].val.confidence = PyFloat(0, 1)]

analyze_chart_to_text(client, cache, uuid, r1, r2, r3) ==
    ChartRun(client, cache, uuid, r1, r2, r3, FALSE)

----------------------------------------------------------------------------
(* analyze_chart_to_text as an operation *)

\* Runs is a set of <<r1, r2, r3>>: the replies of the model to the three
\* requests of one call
\* the state after a call with replies run whose outcome is out
AnalyzeReturns(run, out) ==
    /\ call' = [op |-> "analyze", r1 |-> run[1], r2 |-> run[2], r3 |-> run[3]]
    /\ ret' = [done |-> TRUE, analysis |-> out.analysis, handler |-> out.handler,
               failed |-> out.failed, asked |-> out.asked,
               chart_metadata |-> out.chart_metadata,
               data_insights |-> out.data_insights,
               cache_before |-> chart_cache]
    /\ chart_cache' = out.cache
    /\ uuid_next' = out.uuid

AnalyzeChart(Runs, limit) ==
    /\ Len(chart_cache) < limit
    /\ \E run \in Runs :
        AnalyzeReturns(run, analyze_chart_to_text(genai_client, chart_cache, uuid_next,
                                            run[1], run[2], run[3]))
    /\ UNCHANGED <<genai_client, visual_text_links>>

(* The replies the chart pipeline is run on *)


JsonReply(v) == [kind |-> "json", v |-> v]
ProseReply(s) == [kind |-> "prose", s |-> s]
RaiseReply == [kind |-> "raise"]

\* data point i: category "Q<i>", value 10 i
Point(i) == PyDict([category |-> PyStr(<<"Q">> \o IntStr(i)), value |-> PyInt(10 * i)])
Points(n) == PyList([i \in 1..n |-> Point(i)])

MetaBar == PyDict([type |-> PyStr(Txt.bar), confidence |-> PyFloat(6, 10)])
MetaPie == PyDict([type |-> PyStr(Txt.pie), title |-> PyStr(Txt.T), confidence |-> PyFloat(9, 10)])

StructureReplies ==
    {RaiseReply, JsonReply(MetaBar), JsonReply(MetaPie), JsonReply(EmptyDict),
     JsonReply(PyList(<<>>))}

TwoPoints == PyDict([data_points |-> Points(2)])

\* more points than the limit, one of them without a value, and every other part
FullData ==
    PyDict([data_points |-> PyList([i \in 1..(FactLimit + ExtraPoints) |->
                                       IF i = 3 THEN PyDict([category |-> PyStr(<<"Q", "3">>)])
                                       ELSE Point(i)]),
            trends |-> PyList(<<PyStr(Txt.up)>>),
            key_statistics |->
                PyDict([highest |-> Point(FactLimit + ExtraPoints), lowest |-> Point(1),
                        average |-> PyInt(65)]),
            insights |-> PyList(<<PyStr(Txt.i1)>>)])

\* a data point that is a number, between two good ones
BadPoint ==
    PyDict([data_points |-> PyList(<<Point(1), PyInt(7), Point(2)>>),
            insights |-> PyList(<<PyStr(Txt.i1)>>)])

\* statistics whose "highest" is a number
BadStats == PyDict([trends |-> PyList(<<PyStr(Txt.up)>>),
                    key_statistics |-> PyDict([highest |-> PyInt(5)])])

DataReplies ==
    {RaiseReply, JsonReply(TwoPoints), JsonReply(FullData), JsonReply(BadPoint),
     JsonReply(BadStats), JsonReply(PyList(<<>>))}

DescriptionReplies == {RaiseReply, ProseReply(Txt.abc), ProseReply(Txt.ax)}

AnalyzeAnyChart ==
    AnalyzeChart(StructureReplies \X DataReplies \X DescriptionReplies, MaxCharts)

InitChart ==
    /\ genai_client \in BOOLEAN
    /\ chart_cache = <<>>
    /\ visual_text_links = <<>>
    /\ uuid_next = 0
    /\ call = NoCall
    /\ ret = NoRet

NextChart == AnalyzeAnyChart

SpecChart == InitChart /\ [][NextChart]_vars

----------------------------------------------------------------------------
(* Claims about analyze_chart_to_text *)

Analyzed == call.op = "analyze" /\ ret.done

\* the capability raised inside a request that stage k made
CapabilityRaised(k) ==
    /\ ret.asked[k]
    /\ (CASE k = 1 -> call.r1 [] k = 2 -> call.r2 [] k = 3 -> call.r3).kind = "raise"

\* C1: analyze_chart_to_text never raises, and whenever a capability call of
\* the run raised, the analysis returned has chart_type "unknown" and
\* confidence 0.0.  (No return of the model is a raise: the outer handler
\* catches every Exception; the formula is the second half.)
C1_CapabilityFailureGivesUnknown ==
    (Analyzed /\ \E k \in 1..3 : CapabilityRaised(k)) =>
        /\ ret.analysis.chart_type = PyStr(Lit.unknown)
        /\ ret.analysis.confidence = PyFloat(0, 1)

\* C2: a failure inside any of the four stages makes analyze_chart_to_text
\* return exactly the default record, with no queryable facts.
C2_StageFailureGivesDefault ==
    (Analyzed /\ \E k \in 1..4 : ret.failed[k]) => ret.analysis = DefaultAnalysis

\* C2, amended: the default record is returned, and nothing is cached, exactly
\* when the value of stage 1 is not a record (the final assembly then raises
\* into the outer handler).  Otherwise a failure inside stage 2, 3 or 4 is
\* absorbed by the stage: the analysis returned and cached keeps the type and
\* confidence of stage 1, and carries the stage's own fallback value.
C2_StageFailuresAreAbsorbed ==
    Analyzed =>
        /\ ret.handler <=> ret.chart_metadata.t # "dict"
        /\ ret.handler =>
            /\ ret.analysis = DefaultAnalysis
            /\ chart_cache = ret.cache_before
        /\ ~ret.handler =>
            /\ Len(chart_cache) = Len(ret.cache_before) + 1
            /\ chart_cache[Len(chart_cache)].val = ret.analysis
            /\ ret.analysis.chart_type = Get(ret.chart_metadata, "type", PyStr(Lit.unknown))
            /\ ret.analysis.confidence = Get(ret.chart_metadata, "confidence", PyFloat(1, 2))
            /\ ret.analysis.data_insights = ret.data_insights
            /\ ~ret.failed[1] /\ ~ret.failed[2]
            /\ ret.failed[3] => ret.analysis.text_content = Lit.DescriptionFailed
            /\ (ret.failed[3] \/ ret.failed[4]) => ret.analysis # DefaultAnalysis

\* a run in which stages 3 and 4 failed and a filled analysis came back
C2_Witness ==
    /\ Analyzed /\ ~ret.handler
    /\ ret.failed[3] /\ ret.failed[4]
    /\ ret.analysis.chart_type = PyStr(Txt.bar)
    /\ Len(ret.analysis.queryable_facts) = 1
    /\ Len(chart_cache) = 1

\* the confidence of the record that stage 1 gives for the reply r1 of the
\* call: 0.0 in the record of a service without client, 0.3 in the fallback
\* record for a reply that is not JSON text, else the "confidence" of the
\* record in the reply, 0.5 when it has none
StructureConfidence ==
    IF ~genai_client THEN PyFloat(0, 1)
    ELSE IF call.r1.kind # "json" THEN PyFloat(3, 10)
         ELSE IF "confidence" \in DOMAIN call.r1.v.d THEN call.r1.v.d["confidence"]
              ELSE PyFloat(1, 2)

\* C25: the analysis that a completed run returns and caches has the
\* confidence of the stage-1 record, 0.5 when the record has none, whatever
\* the replies to stages 2 and 3 and whichever of the stages 2 to 4 fell
\* back.
C25_ConfidenceIsStageOne ==
    (Analyzed /\ ~ret.handler) =>
        /\ ret.analysis.confidence = StructureConfidence
        /\ chart_cache[Len(chart_cache)].val.confidence = StructureConfidence

\* A run on a stage-1 record without confidence in which the data stage got
\* a list, the description stage failed and the fact stage failed: 0.5.
C25_Witness ==
    /\ Analyzed /\ ~ret.handler /\ genai_client
    /\ call.r1 = JsonReply(EmptyDict)
    /\ ret.failed[3]
    /\ ret.analysis.confidence = PyFloat(1, 2)
    /\ chart_cache[1].val.confidence = PyFloat(1, 2)

(* Fact extraction, stated from the values of stages 1 and 2 *)

RECURSIVE Concat(_)
Concat(seqs) == IF seqs = <<>> THEN <<>> ELSE Head(seqs) \o Concat(Tail(seqs))

MapStr(l, F(_)) == [i \in 1..Len(l) |-> PyStr(F(l[i]))]

HasBoth(p) == "category" \in DOMAIN p.d /\ "value" \in DOMAIN p.d
PointText(p) == Format(p.d["category"]) \o Lit.ColonSpace \o Format(p.d["value"])
TrendText(x) == Lit.Trend \o Format(x)
ExtremeText(label, e) ==
    label \o Format(Get(e, "value", PyNone)) \o Lit.SpaceParen
    \o Format(Get(e, "category", PyNone)) \o Lit.Paren

ListAt(d, key) == IF key \in DOMAIN d /\ d[key].t = "list" THEN d[key].l ELSE <<>>
Present(d, key) == key \in DOMAIN d /\ Truthy(d[key])

ExpectedFacts(meta, di) ==
    LET stats == IF "key_statistics" \in DOMAIN di THEN di["key_statistics"].d ELSE <<>>
        points == ListAt(di, "data_points")
        first == SubSeq(points, 1, IF Len(points) < 10 THEN Len(points) ELSE 10)
    IN  Concat(<<
            IF Present(meta, "type") THEN <<PyStr(Lit.ThisIsA \o Format(meta["type"]))>> ELSE <<>>,
            IF Present(meta, "title") THEN <<PyStr(Lit.ChartTitle \o Format(meta["title"]))>> ELSE <<>>,
            MapStr(SelectSeq(first, HasBoth), PointText),
            MapStr(ListAt(di, "trends"), TrendText),
            IF Present(stats, "highest")
                THEN <<PyStr(ExtremeText(Lit.HighestValue, stats["highest"]))>> ELSE <<>>,
            IF Present(stats, "lowest")
                THEN <<PyStr(ExtremeText(Lit.LowestValue, stats["lowest"]))>> ELSE <<>>,
            IF "average" \in DOMAIN stats
                THEN <<PyStr(Lit.AverageValue \o Format(stats["average"]))>> ELSE <<>>,
            ListAt(di, "insights")
        >>)


\* C9: when fact extraction runs through, the facts are, in this order: the
\* type fact, the title fact if there is a title, "{category}: {value}" for the
\* data points among the first 10 (in input order), one fact per trend, the
\* highest, lowest and average facts, then the insights verbatim; and for the
\* data points Q1=10, Q2=20 alone they are "This is a bar", "Q1: 10", "Q2: 20".
C9_FactOrder ==
    (Analyzed /\ ~ret.handler /\ ~ret.failed[4]) =>
        /\ ret.analysis.queryable_facts =
               ExpectedFacts(ret.chart_metadata.d, ret.data_insights.d)
        /\ (ret.chart_metadata = MetaBar /\ ret.data_insights = TwoPoints) =>
               ret.analysis.queryable_facts =
                   <<PyStr(Txt.ThisIsABar), PyStr(Txt.Q1_10), PyStr(Txt.Q2_20)>>

\* a run over more than 10 data points and every kind of fact, and the run of
\* the example
C9_Witness ==
    /\ Analyzed /\ ~ret.handler /\ ~ret.failed[4]
    /\ ret.data_insights = FullData
    /\ ret.chart_metadata = MetaPie
    /\ Len(ret.analysis.queryable_facts) = 16

IsPrefix(a, b) == Len(a) <= Len(b) /\ SubSeq(b, 1, Len(a)) = a

\* the first data point that is not a record, 0 when there is none
FirstBadPoint(di) ==
    LET points == ListAt(di, "data_points")
        bad == {j \in 1..Len(points) : points[j].t # "dict"}
    IN  IF bad = {} THEN 0 ELSE CHOOSE j \in bad : \A b \in bad : j <= b

\* The part of the data that fact extraction has read when it fails on it:
\* nothing of a value that is not a record, the data points in front of the
\* first that is not a record, what comes before the statistics when
\* "highest" is not a record.
ReadBeforeFailure(data_insights) ==
    IF data_insights.t # "dict" THEN <<>>
    ELSE IF FirstBadPoint(data_insights.d) > 0
    THEN [k \in {"data_points"} |->
             PyList(SubSeq(data_insights.d["data_points"].l, 1,
                           FirstBadPoint(data_insights.d) - 1))]
    ELSE [k \in DOMAIN data_insights.d \ {"key_statistics", "insights"} |->
             data_insights.d[k]]

\* The data without the values that make fact extraction fail
Repaired(data_insights) ==
    IF data_insights.t # "dict" THEN <<>>
    ELSE [k \in DOMAIN data_insights.d |->
             CASE k = "data_points" /\ data_insights.d[k].t = "list" ->
                      PyList(SelectSeq(data_insights.d[k].l, LAMBDA p : p.t = "dict"))
               [] k = "key_statistics" /\ data_insights.d[k].t = "dict" ->
                      PyDict([key \in {x \in DOMAIN data_insights.d[k].d :
                                          data_insights.d[k].d[x].t = "dict" \/ x = "average"} |->
                                 data_insights.d[k].d[key]])
               [] OTHER -> data_insights.d[k]]

\* C26, as the specification states it: whenever fact extraction failed, the
\* run still returns and caches an analysis that is not the default one and
\* carries the facts appended before the failure.  When the failure is that
\* of metadata.get on a stage-1 value that is not a record, the assembly
\* after the stage raises as well.
C26_FactFailureStillCaches ==
    (Analyzed /\ ret.failed[4]) =>
        /\ ~ret.handler
        /\ ret.analysis # DefaultAnalysis
        /\ Len(chart_cache) = Len(ret.cache_before) + 1
        /\ chart_cache[Len(chart_cache)].val = ret.analysis

\* C26, amended: when fact extraction failed on a stage-1 value that is a
\* record, the facts of the analysis are exactly those appended before the
\* failure, a prefix of the facts of the run on the data without the failing
\* values, and the analysis is returned and cached with the type of stage 1;
\* when stage 1 gave no record, the first statement of fact extraction fails,
\* the assembly after it raises too, and the run returns the default analysis
\* and caches nothing.
C26_FactFailureKeepsPrefix ==
    (Analyzed /\ ret.failed[4]) =>
        IF ret.chart_metadata.t # "dict"
        THEN /\ ret.handler
             /\ ret.analysis = DefaultAnalysis
             /\ chart_cache = ret.cache_before
        ELSE /\ ~ret.handler
             /\ ret.analysis.queryable_facts
                    = ExpectedFacts(ret.chart_metadata.d, ReadBeforeFailure(ret.data_insights))
             /\ IsPrefix(ret.analysis.queryable_facts,
                         ExpectedFacts(ret.chart_metadata.d, Repaired(ret.data_insights)))
             /\ ret.analysis.chart_type = Get(ret.chart_metadata, "type", PyStr(Lit.unknown))
             /\ ret.analysis.data_insights = ret.data_insights
             /\ Len(chart_cache) = Len(ret.cache_before) + 1
             /\ chart_cache[Len(chart_cache)].val = ret.analysis

\* A run whose second data point is a number: the facts are the type fact
\* and the fact of the first point, two of the four facts of the run without
\* that point, and the analysis is cached.
C26_Witness ==
    /\ Analyzed /\ ret.failed[4] /\ ~ret.handler
    /\ ret.chart_metadata = MetaBar
    /\ ret.data_insights = BadPoint
    /\ ret.analysis.queryable_facts = <<PyStr(Txt.ThisIsABar), PyStr(Txt.Q1_10)>>
    /\ Len(ExpectedFacts(ret.chart_metadata.d, Repaired(ret.data_insights))) = 4
    /\ chart_cache[1].val.queryable_facts = ret.analysis.queryable_facts

----------------------------------------------------------------------------
(* VisualTextLinker *)


\* VisualTextLink(visual_id, text_chunks, relationship, confidence)
VisualTextLink(visual_id, text_chunks, relationship, confidence) ==
    [visual_id |-> visual_id, text_chunks |-> text_chunks,
     relationship |-> relationship, confidence |-> confidence]

\* d[key] for an insertion-ordered dict d
HasKey(d, key) == \E i \in 1..Len(d) : d[i].key = key
Lookup(d, key) == d[CHOOSE i \in 1..Len(d) : d[i].key = key].val

\* A plausible slip: dict.setdefault, which keeps the value already stored.
DictSet_KeepFirst(d, key, val) ==
    IF HasKey(d, key) THEN d ELSE Append(d, [key |-> key, val |-> val])

\* A plausible slip: a link already stored under the key is merged with the
\* new one (its text chunks are kept in front of the new link's).
DictSet_MergeChunks(d, key, val) ==
    IF HasKey(d, key)
    THEN [i \in 1..Len(d) |->
            IF d[i].key # key THEN d[i]
            ELSE [key |-> key,
                  val |-> IF d[i].val.text_chunks.t = "list" /\ val.text_chunks.t = "list"
                          THEN [val EXCEPT !.text_chunks =
                                   PyList(d[i].val.text_chunks.l \o val.text_chunks.l)]
                          ELSE val]]
    ELSE Append(d, [key |-> key, val |-> val])

\* d[key] = val: a present key keeps its place and takes the new value
DictSet(d, key, val) ==
    IF HasKey(d, key)
    THEN [i \in 1..Len(d) |-> IF d[i].key = key THEN [key |-> key, val |-> val] ELSE d[i]]
    ELSE Append(d, [key |-> key, val |-> val])

\* A plausible slip: a failed request is answered with "[]", no relationship.
_analyze_with_gemini_text_only_EmptyListOnRaise(reply) ==
    CASE reply.kind = "raise" -> [json |-> TRUE, v |-> PyList(<<>>)]
      [] reply.kind = "empty" -> Text(Lit.NoResponse)
      [] reply.kind = "prose" -> Text(reply.s)
      [] reply.kind = "json" -> [json |-> TRUE, v |-> reply.v]

\* _analyze_with_gemini_text_only
_analyze_with_gemini_text_only(reply) ==
    CASE reply.kind = "raise" -> Text(Lit.AnalysisFailed)
      [] reply.kind = "empty" -> Text(Lit.NoResponse)
      [] reply.kind = "prose" -> Text(reply.s)
      [] reply.kind = "json" -> [json |-> TRUE, v |-> reply.v]

\* A plausible slip: only the chunks of the image's own document are taken.
RelatedChunks_SameDocument(image, text_chunks) ==
    SelectSeq(text_chunks,
              LAMBDA chunk : /\ Abs(chunk.page_number - image.page_number) <= 1
                             /\ chunk.document_id = image.document_id)

\* related_chunks of create_visual_text_links
RelatedChunks(image, text_chunks) ==
    SelectSeq(text_chunks, LAMBDA chunk : Abs(chunk.page_number - image.page_number) <= 1)

\* A plausible slip: the fallback record takes the first two chunks whole.
_analyze_visual_text_relationships_WholeChunks(client, image, text_chunks, reply) ==
    IF ~client THEN PyList(<<>>)
    ELSE LET response == _analyze_with_gemini_text_only(reply)
         IN  IF response.json THEN response.v
             ELSE PyList(<<PyDict([
                      relationship |-> PyStr(Lit.general),
                      text_chunks |-> PyList([i \in 1..Len(Prefix(text_chunks, 2)) |->
                                                 PyStr(text_chunks[i].content)]),
                      confidence |-> PyFloat(3, 10),
                      explanation |-> PyStr(Lit.BasicProximity)])>>)

\* _analyze_visual_text_relationships: the value it returns (its body raises
\* nowhere outside the inner try for DocumentImage and DocumentChunk records)
_analyze_visual_text_relationships(client, image, text_chunks, reply) ==
    IF ~client THEN PyList(<<>>)
    ELSE LET response == _analyze_with_gemini_text_only(reply)
         IN  IF response.json THEN response.v
             ELSE PyList(<<PyDict([
                      relationship |-> PyStr(Lit.general),
                      text_chunks |-> PyList([i \in 1..Len(Prefix(text_chunks, 2)) |->
                                                 PyStr(Prefix(text_chunks[i].content, 100))]),
                      confidence |-> PyFloat(3, 10),
                      explanation |-> PyStr(Lit.BasicProximity)])>>)

\* `for relationship in relationships` with the body of the loop: st is
\* [links, cache, ok].  Iterating a number or None raises; a dict yields its
\* keys and a str its characters, on which relationship["text_chunks"] raises.
RECURSIVE RelationshipLoop(_, _, _, _)
RelationshipLoop(st, image, records, i) ==
    IF i > Len(records) THEN st
    ELSE LET relationship == records[i]
         IN  IF \/ relationship.t # "dict"
                \/ ~In("text_chunks", relationship)
                \/ ~In("relationship", relationship)
                \/ ~In("confidence", relationship)
             THEN [st EXCEPT !.ok = FALSE]
             ELSE LET link == VisualTextLink(image.id, relationship.d["text_chunks"],
                                             relationship.d["relationship"],
                                             relationship.d["confidence"])
                  IN  RelationshipLoop([links |-> Append(st.links, link),
                                        cache |-> DictSet(st.cache, image.id, link),
                                        ok |-> TRUE],
                                       image, records, i + 1)

\* A plausible slip: the records are taken from the last to the first.
LinkImage_LastRecordFirst(st, image, relationships) ==
    CASE relationships.t = "list" ->
            RelationshipLoop(st, image,
                             [i \in 1..Len(relationships.l) |->
                                 relationships.l[Len(relationships.l) + 1 - i]], 1)
      [] relationships.t = "dict" ->
            IF DOMAIN relationships.d = {} THEN st ELSE [st EXCEPT !.ok = FALSE]
      [] relationships.t = "str" ->
            IF relationships.s = <<>> THEN st ELSE [st EXCEPT !.ok = FALSE]
      [] relationships.t \in {"int", "float", "none"} -> [st EXCEPT !.ok = FALSE]

LinkImage(st, image, relationships) ==
    CASE relationships.t = "list" -> RelationshipLoop(st, image, relationships.l, 1)
      [] relationships.t = "dict" ->
            IF DOMAIN relationships.d = {} THEN st ELSE [st EXCEPT !.ok = FALSE]
      [] relationships.t = "str" ->
            IF relationships.s = <<>> THEN st ELSE [st EXCEPT !.ok = FALSE]
      [] relationships.t \in {"int", "float", "none"} -> [st EXCEPT !.ok = FALSE]

\* A plausible slip: no `continue`, an image without related chunks is
\* analysed like the others.
RECURSIVE ImageLoop_NoSkip(_, _, _, _, _, _)
ImageLoop_NoSkip(st, client, images, text_chunks, replies, k) ==
    IF k > Len(images) \/ ~st.ok THEN st
    ELSE LET image == images[k]
             related_chunks == RelatedChunks(image, text_chunks)
             relationships ==
                 _analyze_visual_text_relationships(client, image,
                                                    related_chunks, replies[k])
             linked == LinkImage([links |-> st.links, cache |-> st.cache,
                                  ok |-> TRUE], image, relationships)
         IN  ImageLoop_NoSkip([links |-> linked.links, cache |-> linked.cache,
                               ok |-> linked.ok,
                               analysed |-> Append(st.analysed,
                                   [image |-> image, related_chunks |-> related_chunks])],
                              client, images, text_chunks, replies, k + 1)

\* The loop over the images.  st = [links, cache, ok, analysed]: the local
\* list, the cache, whether the body is still running, and the calls made to
\* _analyze_visual_text_relationships as [image, related_chunks].
RECURSIVE ImageLoop(_, _, _, _, _, _)
ImageLoop(st, client, images, text_chunks, replies, k) ==
    IF k > Len(images) \/ ~st.ok THEN st
    ELSE LET image == images[k]
             related_chunks == RelatedChunks(image, text_chunks)
         IN  IF related_chunks = <<>>
             THEN ImageLoop(st, client, images, text_chunks, replies, k + 1)
             ELSE LET relationships ==
                          _analyze_visual_text_relationships(client, image,
                                                             related_chunks, replies[k])
                      linked == LinkImage([links |-> st.links, cache |-> st.cache,
                                           ok |-> TRUE], image, relationships)
                  IN  ImageLoop([links |-> linked.links, cache |-> linked.cache,
                                 ok |-> linked.ok,
                                 analysed |-> Append(st.analysed,
                                     [image |-> image, related_chunks |-> related_chunks])],
                                client, images, text_chunks, replies, k + 1)

\* create_visual_text_links: replies[k] is the model's reply to the request
\* made for images[k].  Gives the list returned, the list built (which the
\* handler drops when it runs), and the cache afterwards.
create_visual_text_links(client, cache, images, text_chunks, replies) ==
    LET st == ImageLoop([links |-> <<>>, cache |-> cache, ok |-> TRUE, analysed |-> <<>>],
                        client, images, text_chunks, replies, 1)
    IN  [links |-> IF st.ok THEN st.links ELSE <<>>,
         built |-> st.links, handler |-> ~st.ok,
         cache |-> st.cache, analysed |-> st.analysed]

----------------------------------------------------------------------------
(* create_visual_text_links as an operation *)

CreateLinks(ImageLists, ChunkLists, Replies) ==
    /\ \E images \in ImageLists, text_chunks \in ChunkLists :
       \E replies \in [1..Len(images) -> Replies] :
        LET out == create_visual_text_links(genai_client, visual_text_links,
                                            images, text_chunks, replies)
        IN  /\ call' = [op |-> "links", images |-> images, text_chunks |-> text_chunks,
                        replies |-> replies]
            /\ ret' = [done |-> TRUE, links |-> out.links, built |-> out.built,
                       handler |-> out.handler, analysed |-> out.analysed,
                       links_before |-> visual_text_links]
            /\ visual_text_links' = out.cache
    /\ UNCHANGED <<genai_client, chart_cache, uuid_next>>

(* The images, chunks and replies the linker is run on *)


DocumentImage(id, document_id, page_number, image_type, description) ==
    [id |-> id, document_id |-> document_id, page_number |-> page_number,
     image_type |-> image_type, description |-> description]

DocumentChunk(document_id, content, page_number) ==
    [document_id |-> document_id, content |-> content, page_number |-> page_number]

ImagePage5 == DocumentImage(Txt.d1_i1, Txt.d1, 5, Lit.chart, Txt.xy)
ImagePage1 == DocumentImage(Txt.d1_i2, Txt.d1, 1, Txt.photo, <<>>)

ChunkPage2 == DocumentChunk(Txt.d1, Txt.gh, 2)
ChunkPage3 == DocumentChunk(Txt.d1, Txt.ab, 3)
ChunkPage4 == DocumentChunk(Txt.d2, Txt.abc, 4)     \* a chunk of another document
ChunkPage6 == DocumentChunk(Txt.d1, Txt.cd, 6)
ChunkPage7 == DocumentChunk(Txt.d1, Txt.e, 7)

LinkImageLists == {<<ImagePage5>>, <<ImagePage1, ImagePage5>>}

LinkChunkLists ==
    {<<ChunkPage3, ChunkPage4, ChunkPage6, ChunkPage7>>,
     <<ChunkPage2, ChunkPage4>>,
     <<ChunkPage3, ChunkPage7>>}

Relationship(relationship, text_chunks, confidence) ==
    PyDict([relationship |-> PyStr(relationship),
            text_chunks |-> PyList([i \in 1..Len(text_chunks) |-> PyStr(text_chunks[i])]),
            confidence |-> confidence])

RecIllustration == Relationship(Txt.illustration, <<Txt.abc>>, PyFloat(8, 10))
RecExample == Relationship(Txt.example, <<Txt.cd, Txt.ax>>, PyFloat(6, 10))
RecNoConfidence ==
    PyDict([relationship |-> PyStr(Txt.example), text_chunks |-> PyList(<<PyStr(Txt.e)>>)])

LinkReplies ==
    {RaiseReply,
     JsonReply(PyList(<<RecIllustration>>)),
     JsonReply(PyList(<<RecIllustration, RecExample>>)),
     JsonReply(PyList(<<RecExample, RecNoConfidence>>))}

CreateAnyLinks == CreateLinks(LinkImageLists, LinkChunkLists, LinkReplies)

InitLinks ==
    /\ genai_client \in BOOLEAN
    /\ chart_cache = <<>>
    /\ visual_text_links = <<>>
    /\ uuid_next = 0
    /\ call = NoCall
    /\ ret = NoRet

\* The second disjunct is a pass for the image of page 5 with three chunks in
\* its window, the first of 102 characters, and a reply that is not JSON.
NextLinks ==
    \/ CreateAnyLinks
    \/ CreateLinks({<<ImagePage5>>},
                   {<<DocumentChunk(Txt.d1, [i \in 1..102 |-> "a"], 5),
                      ChunkPage4, ChunkPage6>>},
                   {ProseReply(Txt.up), [kind |-> "empty"]})

SpecLinks == InitLinks /\ [][NextLinks]_vars

----------------------------------------------------------------------------
(* Claims about create_visual_text_links *)

Linked == call.op = "links" /\ ret.done

\* the links of the cache with the given visual_id
CachedFor(visual_id) ==
    {i \in 1..Len(visual_text_links) : visual_text_links[i].val.visual_id = visual_id}

\* the last link the call built for the given visual_id
LastBuilt(visual_id) ==
    ret.built[CHOOSE k \in 1..Len(ret.built) :
                 /\ ret.built[k].visual_id = visual_id
                 /\ \A j \in (k + 1)..Len(ret.built) : ret.built[j].visual_id # visual_id]

BuiltIds == {ret.built[k].visual_id : k \in 1..Len(ret.built)}

\* C4: the link cache holds at most one link per visual_id, and after links
\* were inserted for the same visual_id, within one pass or across passes, it
\* holds the one inserted last (links of other ids stay as they were).
C4_OneLinkPerVisualLastWins ==
    /\ \A i, j \in 1..Len(visual_text_links) :
           visual_text_links[i].val.visual_id = visual_text_links[j].val.visual_id => i = j
    /\ Linked =>
        /\ \A id \in BuiltIds :
               \E i \in 1..Len(visual_text_links) :
                   /\ CachedFor(id) = {i}
                   /\ visual_text_links[i].val = LastBuilt(id)
        /\ \A i \in 1..Len(ret.links_before) :
               ret.links_before[i].key \notin BuiltIds =>
                   \E j \in 1..Len(visual_text_links) :
                       visual_text_links[j] = ret.links_before[i]

\* a pass that built two links for one image over a cache that already held a
\* third link for it: only the second of the two is cached
C4_Witness ==
    /\ Linked
    /\ Len(ret.built) = 2
    /\ ret.built[1].visual_id = Txt.d1_i1 /\ ret.built[2].visual_id = Txt.d1_i1
    /\ ret.built[1] # ret.built[2]
    /\ HasKey(ret.links_before, Txt.d1_i1)
    /\ Lookup(ret.links_before, Txt.d1_i1).relationship = PyStr(Lit.general)
    /\ Len(visual_text_links) = 1
    /\ visual_text_links[1].val = ret.built[2]

PagesOf(chunks) == [i \in 1..Len(chunks) |-> chunks[i].page_number]

\* C8: the candidate chunks of an image are exactly the chunks whose page is
\* the image's page or one next to it, in input order, whatever their
\* document; for the image on page 5 and chunks on pages 3, 4, 6, 7 they are
\* the chunks of pages 4 and 6.
C8_CandidateWindow ==
    Linked =>
        /\ \A k \in 1..Len(ret.analysed) :
            LET image == ret.analysed[k].image
                near == {image.page_number - 1, image.page_number, image.page_number + 1}
                picked == {i \in 1..Len(call.text_chunks) :
                              call.text_chunks[i].page_number \in near}
                related == ret.analysed[k].related_chunks
            IN  /\ Len(related) = Cardinality(picked)
                /\ \A i \in picked :
                       related[Cardinality({j \in picked : j <= i})] = call.text_chunks[i]
        /\ (PagesOf(call.text_chunks) = <<3, 4, 6, 7>> /\ call.images[1].page_number = 5) =>
               /\ Len(ret.analysed) >= 1
               /\ PagesOf(ret.analysed[1].related_chunks) = <<4, 6>>

\* the example: the page-5 image over chunks of pages 3, 4, 6, 7, the page-4
\* chunk being of another document than the image
C8_Witness ==
    /\ Linked
    /\ PagesOf(call.text_chunks) = <<3, 4, 6, 7>>
    /\ Len(ret.analysed) = 1
    /\ ret.analysed[1].image = ImagePage5
    /\ ret.analysed[1].related_chunks = <<ChunkPage4, ChunkPage6>>
    /\ ChunkPage4.document_id # ImagePage5.document_id


\* a reply that is a list of complete relationship records
CompleteReply(reply) ==
    /\ reply.kind = "json"
    /\ reply.v.t = "list"
    /\ reply.v.l # <<>>
    /\ \A i \in 1..Len(reply.v.l) :
        /\ reply.v.l[i].t = "dict"
        /\ {"relationship", "text_chunks", "confidence"} \subseteq DOMAIN reply.v.l[i].d

\* the images of the call that have candidate chunks and a complete reply
SoundImages ==
    {k \in 1..Len(call.images) :
        /\ RelatedChunks(call.images[k], call.text_chunks) # <<>>
        /\ CompleteReply(call.replies[k])}

\* C12, as the specification states it: a failure while one image of a batch
\* is processed leaves the other images alone, so the links of every image
\* that has candidate chunks and a complete reply are created, returned and
\* cached.  The loop over the images runs in one try, so the first failing
\* image ends the batch and the call returns the empty list.
C12_FailingImageDoesNotAbort ==
    (Linked /\ genai_client) =>
        \A k \in SoundImages :
            /\ \E j \in 1..Len(ret.links) : ret.links[j].visual_id = call.images[k].id
            /\ HasKey(visual_text_links, call.images[k].id)


\* C13, as the specification states it: a call that ends in the handler and
\* returns the empty list has written nothing to the link cache.  The cache
\* is written inside the loop, link by link, so the links built before the
\* failure stay in the cache of a call that returns none.
C13_FailedCallLeavesCacheAlone ==
    (Linked /\ ret.handler) =>
        /\ ret.links = <<>>
        /\ visual_text_links = ret.links_before

\* the images of the call with no chunk on their page or a page next to it
Unwindowed ==
    {k \in 1..Len(call.images) :
        \A i \in 1..Len(call.text_chunks) :
            call.text_chunks[i].page_number - call.images[k].page_number \notin {-1, 0, 1}}

\* C22: for an image of the call with no chunk in its page window, no
\* relationship analysis is requested, no link is built or returned, and the
\* cache has under the image's id what it had before the call.
C22_ImageWithoutCandidatesSkipped ==
    Linked =>
        \A k \in Unwindowed :
            LET id == call.images[k].id
            IN  /\ \A j \in 1..Len(ret.analysed) : ret.analysed[j].image # call.images[k]
                /\ \A j \in 1..Len(ret.built) : ret.built[j].visual_id # id
                /\ \A j \in 1..Len(ret.links) : ret.links[j].visual_id # id
                /\ HasKey(visual_text_links, id) <=> HasKey(ret.links_before, id)
                /\ HasKey(visual_text_links, id) =>
                       Lookup(visual_text_links, id) = Lookup(ret.links_before, id)

\* A pass over the images of page 1 and page 5 with chunks of pages 3, 4, 6
\* and 7: the image of page 1 is skipped and keeps the link an earlier pass
\* cached for it, the image of page 5 is analysed and linked.
C22_Witness ==
    /\ Linked /\ genai_client
    /\ call.images = <<ImagePage1, ImagePage5>>
    /\ Unwindowed = {1}
    /\ HasKey(ret.links_before, ImagePage1.id)
    /\ Lookup(visual_text_links, ImagePage1.id) = Lookup(ret.links_before, ImagePage1.id)
    /\ Len(ret.analysed) = 1
    /\ ret.links # <<>>

\* the link of the fallback record for an image and its candidate chunks
GeneralLink(image, candidates) ==
    VisualTextLink(image.id,
                   PyList([i \in 1..(IF Len(candidates) < 2 THEN Len(candidates) ELSE 2) |->
                              PyStr(SubSeq(candidates[i].content, 1,
                                           IF Len(candidates[i].content) < 100
                                           THEN Len(candidates[i].content) ELSE 100))]),
                   PyStr(Lit.general), PyFloat(3, 10))

\* the reply given to the request made for an image of the call
ReplyFor(image) == call.replies[CHOOSE k \in 1..Len(call.images) : call.images[k] = image]

\* C23: when the reply to the request made for an image is not JSON text
\* (prose, no text, or the sentinel of a failed call), the pass builds
\* exactly one link for the image, the fallback link (general, 0.3, the
\* first 100 characters of the first two candidate chunks), caches it, and
\* has it in the list it returns unless it ends in the handler.
C23_UnparsableReplyGivesGeneralLink ==
    (Linked /\ genai_client) =>
        \A j \in 1..Len(ret.analysed) :
            LET image == ret.analysed[j].image
                link == GeneralLink(image, ret.analysed[j].related_chunks)
            IN  ReplyFor(image).kind \in {"raise", "empty", "prose"} =>
                    /\ \E m \in 1..Len(ret.built) :
                          /\ ret.built[m] = link
                          /\ \A n \in 1..Len(ret.built) :
                                ret.built[n].visual_id = image.id => n = m
                    /\ HasKey(visual_text_links, image.id)
                    /\ Lookup(visual_text_links, image.id) = link
                    /\ ~ret.handler =>
                          Cardinality({m \in 1..Len(ret.links) :
                                          ret.links[m].visual_id = image.id}) = 1

\* A prose reply for an image with three candidates, the first of 102
\* characters: the one link returned has two chunks, the first cut to 100.
C23_Witness ==
    /\ Linked /\ genai_client
    /\ Len(ret.analysed) = 1
    /\ Len(ret.analysed[1].related_chunks) = 3
    /\ Len(ret.analysed[1].related_chunks[1].content) = 102
    /\ call.replies[1].kind = "prose"
    /\ Len(ret.links) = 1
    /\ ret.links[1].relationship = PyStr(Lit.general)
    /\ ret.links[1].confidence = PyFloat(3, 10)
    /\ Len(ret.links[1].text_chunks.l) = 2
    /\ Len(ret.links[1].text_chunks.l[1].s) = 100
    /\ ret.links[1].text_chunks.l[2].s = ChunkPage4.content

\* the positions of the links of a list that are for the given image
LinksFor(links, image) == {m \in 1..Len(links) : links[m].visual_id = image.id}

\* the images for which the pass got to line 328 (it has candidate chunks and
\* no image before it sent the pass into the handler)
Reached(image) == \E j \in 1..Len(ret.analysed) : ret.analysed[j].image = image

\* C30: for an image the pass gets to with candidate chunks and whose request
\* to the model raises, a service with a client builds one link, the fallback
\* link (general, 0.3), caches it under the image, and has it once in the
\* list it returns unless the pass ends in the handler; a service without a
\* client makes no request, builds and returns no link and leaves the link
\* cache as it was.
C30_FailedRequestGivesGeneralLink ==
    Linked =>
        \A k \in 1..Len(call.images) :
            LET image == call.images[k]
                link == GeneralLink(image, RelatedChunks(image, call.text_chunks))
            IN  (Reached(image) /\ call.replies[k].kind = "raise") =>
                    IF genai_client
                    THEN /\ Cardinality(LinksFor(ret.built, image)) = 1
                         /\ \A m \in LinksFor(ret.built, image) : ret.built[m] = link
                         /\ link.relationship = PyStr(Lit.general)
                         /\ link.confidence = PyFloat(3, 10)
                         /\ HasKey(visual_text_links, image.id)
                         /\ Lookup(visual_text_links, image.id) = link
                         /\ ~ret.handler =>
                                /\ Cardinality(LinksFor(ret.links, image)) = 1
                                /\ \A m \in LinksFor(ret.links, image) : ret.links[m] = link
                    ELSE /\ ret.built = <<>> /\ ret.links = <<>>
                         /\ ~ret.handler
                         /\ visual_text_links = ret.links_before

\* A pass of two images with candidates: the request for the first raises
\* and the second gets a record; the first link returned is the fallback
\* link of the first image, which is also in the cache.
C30_Witness ==
    /\ Linked /\ genai_client /\ ~ret.handler
    /\ Len(call.images) = 2 /\ Unwindowed = {}
    /\ call.replies[1].kind = "raise" /\ call.replies[2].kind = "json"
    /\ Len(ret.links) >= 2
    /\ ret.links[1] = GeneralLink(call.images[1],
                                  RelatedChunks(call.images[1], call.text_chunks))
    /\ Lookup(visual_text_links, call.images[1].id) = ret.links[1]
    /\ ret.links[2].relationship # PyStr(Lit.general)

\* the links of image k of the call: none when it has no chunk in its window
\* or the service has no client, the fallback link when the reply is not
\* JSON text, else one link per record of the reply, in the order of the
\* records
LinksOfImage(k) ==
    LET image == call.images[k]
        reply == call.replies[k]
    IN  IF k \in Unwindowed \/ ~genai_client THEN <<>>
        ELSE IF reply.kind # "json"
             THEN <<GeneralLink(image, RelatedChunks(image, call.text_chunks))>>
             ELSE [r \in 1..Len(reply.v.l) |->
                      VisualTextLink(image.id, reply.v.l[r].d["text_chunks"],
                                     reply.v.l[r].d["relationship"],
                                     reply.v.l[r].d["confidence"])]

RECURSIVE LinksFrom(_)
LinksFrom(k) ==
    IF k > Len(call.images) THEN <<>> ELSE LinksOfImage(k) \o LinksFrom(k + 1)

\* C24: a pass that returns its list (it did not end in the handler) returns
\* the links of its images in image order, for each image one link per
\* record in record order with the image's id as visual_id; the cache then
\* holds, for each image with links, the last of them.
C24_OneLinkPerRecordInOrder ==
    (Linked /\ ~ret.handler) =>
        /\ ret.links = LinksFrom(1)
        /\ \A k \in 1..Len(call.images) :
              LinksOfImage(k) # <<>> =>
                  /\ HasKey(visual_text_links, call.images[k].id)
                  /\ Lookup(visual_text_links, call.images[k].id)
                         = LinksOfImage(k)[Len(LinksOfImage(k))]

\* A pass over two images that returns three links, one for the first image
\* and two for the second, while the cache holds two.
C24_Witness ==
    /\ Linked /\ ~ret.handler
    /\ Len(call.images) = 2
    /\ Len(ret.links) = 3
    /\ ret.links[1].visual_id = call.images[1].id
    /\ ret.links[2].visual_id = call.images[2].id
    /\ ret.links[3].visual_id = call.images[2].id
    /\ ret.links[2] # ret.links[3]
    /\ Len(visual_text_links) = 2
    /\ Lookup(visual_text_links, call.images[2].id) = ret.links[3]

----------------------------------------------------------------------------
(* MultiModalSearchOrchestrator *)


\* SearchResult(id, title, content, source_type, url, confidence_score,
\* metadata), without the url that the service always leaves None
SearchResult(id, title, content, source_type, confidence_score, metadata) ==
    [id |-> id, title |-> title, content |-> content, source_type |-> source_type,
     confidence_score |-> confidence_score, metadata |-> metadata]

IsLetter(c) ==
    \E i \in 1..Len(UpperCase) : UpperCase[i] = c \/ LowerCase[i] = c

UpperChar(c) ==
    IF \E i \in 1..Len(LowerCase) : LowerCase[i] = c
    THEN UpperCase[CHOOSE i \in 1..Len(LowerCase) : LowerCase[i] = c]
    ELSE c

\* str.title(): a letter after a non-letter in upper case, the others in lower
Title(s) ==
    [i \in 1..Len(s) |->
        IF i = 1 \/ ~IsLetter(s[i - 1]) THEN UpperChar(s[i]) ELSE LowerChar(s[i])]

\* " ".join(list of str)
RECURSIVE JoinFrom(_, _)
JoinFrom(l, i) ==
    IF i > Len(l) THEN <<>>
    ELSE IF i = Len(l) THEN l[i]
    ELSE l[i] \o Lit.Space \o JoinFrom(l, i + 1)

Join(l) == JoinFrom(l, 1)

\* float(v) for the operand of a product with a float; IsNumber(v) is whether
\* the product is defined
IsNumber(v) == v.t \in {"int", "float"}
Number(v) == IF v.t = "int" THEN Rat(v.i, 1) ELSE v.x

\* _get_chart_analysis_by_image_id: the analyses that have an image_id
\* attribute equal to image_id; gives the first, or None as <<>>
_get_chart_analysis_by_image_id(cache, image_id) ==
    LET hits == SelectSeq(cache, LAMBDA entry :
                    /\ "image_id" \in DOMAIN entry.val
                    /\ entry.val["image_id"] = image_id)
    IN  IF hits = <<>> THEN <<>> ELSE <<hits[1].val>>

\* the visual_context list built for the images related[1..3]
RECURSIVE VisualContext(_, _, _)
VisualContext(related, cache, i) ==
    IF i > Len(related) THEN <<>>
    ELSE LET img == related[i]
             described == IF img.description # <<>>
                          THEN <<Lit.RelatedImage \o img.description>> ELSE <<>>
             found == IF img.image_type \in {Lit.chart, Lit.graph, Lit.diagram}
                      THEN _get_chart_analysis_by_image_id(cache, img.id) ELSE <<>>
             charted == IF found # <<>>
                        THEN <<Lit.ChartData \o Prefix(found[1].text_content, 200)>> ELSE <<>>
         IN  described \o charted \o VisualContext(related, cache, i + 1)

\* A plausible slip: the limit of 3 is put on image_results, before the images
\* of the document and the pages are picked.
_enhance_text_with_visual_context_LimitFirst(text_result, image_results, cache) ==
    LET page == IF "page_number" \in DOMAIN text_result.metadata
                THEN text_result.metadata["page_number"] ELSE 0
        related_images ==
            SelectSeq(Prefix(image_results, 3), LAMBDA img :
                /\ "document_id" \in DOMAIN text_result.metadata
                /\ img.document_id = text_result.metadata["document_id"]
                /\ Abs(img.page_number - page) <= 1)
        visual_context == VisualContext(related_images, cache, 1)
    IN  IF related_images # <<>> /\ visual_context # <<>>
        THEN [text_result EXCEPT
                 !.content = @ \o Lit.VisualContext \o Join(visual_context),
                 !.metadata = [k \in DOMAIN @ \cup {"visual_enhancements"} |->
                                  IF k = "visual_enhancements" THEN Len(visual_context)
                                  ELSE @[k]]]
        ELSE text_result

\* A plausible slip: the count is stored for every result that has related
\* images, also when it is 0.
_enhance_text_with_visual_context_AlwaysCounts(text_result, image_results, cache) ==
    LET page == IF "page_number" \in DOMAIN text_result.metadata
                THEN text_result.metadata["page_number"] ELSE 0
        related_images ==
            SelectSeq(image_results, LAMBDA img :
                /\ "document_id" \in DOMAIN text_result.metadata
                /\ img.document_id = text_result.metadata["document_id"]
                /\ Abs(img.page_number - page) <= 1)
        visual_context == VisualContext(Prefix(related_images, 3), cache, 1)
    IN  IF related_images # <<>>
        THEN [text_result EXCEPT
                 !.content = IF visual_context = <<>> THEN @
                             ELSE @ \o Lit.VisualContext \o Join(visual_context),
                 !.metadata = [k \in DOMAIN @ \cup {"visual_enhancements"} |->
                                  IF k = "visual_enhancements" THEN Len(visual_context)
                                  ELSE @[k]]]
        ELSE text_result

\* _enhance_text_with_visual_context: the text_result object afterwards (it is
\* changed in place and returned).  metadata is a dict with a document_id and
\* an int page_number, for which the body does not raise.
_enhance_text_with_visual_context(text_result, image_results, cache) ==
    LET page == IF "page_number" \in DOMAIN text_result.metadata
                THEN text_result.metadata["page_number"] ELSE 0
        related_images ==
            SelectSeq(image_results, LAMBDA img :
                /\ "document_id" \in DOMAIN text_result.metadata
                /\ img.document_id = text_result.metadata["document_id"]
                /\ Abs(img.page_number - page) <= 1)
        visual_context == VisualContext(Prefix(related_images, 3), cache, 1)
    IN  IF related_images # <<>> /\ visual_context # <<>>
        THEN [text_result EXCEPT
                 !.content = @ \o Lit.VisualContext \o Join(visual_context),
                 !.metadata = [k \in DOMAIN @ \cup {"visual_enhancements"} |->
                                  IF k = "visual_enhancements" THEN Len(visual_context)
                                  ELSE @[k]]]
        ELSE text_result

Threshold == Rat(3, 10)

\* _search_chart_analyses: the loop runs in one try, so the first entry whose
\* result cannot be built ends it with the results so far.  Gives [results,
\* failed].
RECURSIVE ChartLoop(_, _, _, _)
ChartLoop(results, cache, query, i) ==
    IF i > Len(cache) THEN [results |-> results, failed |-> FALSE]
    ELSE LET chart_id == cache[i].key
             analysis == cache[i].val
             relevance == _calculate_text_relevance(query, analysis.text_content)
         IN  IF ~RatLt(Threshold, relevance)
             THEN ChartLoop(results, cache, query, i + 1)
             ELSE IF analysis.chart_type.t # "str" \/ ~IsNumber(analysis.confidence)
             THEN [results |-> results, failed |-> TRUE]
             ELSE ChartLoop(
                      Append(results,
                          SearchResult(Lit.chart_ \o IntStr(chart_id),
                                       Title(analysis.chart_type.s) \o Lit.SpaceChart,
                                       analysis.text_content, "IMAGE",
                                       RatMul(relevance, Number(analysis.confidence)),
                                       [chart_type |-> analysis.chart_type,
                                        data_insights |-> analysis.data_insights,
                                        queryable_facts |-> analysis.queryable_facts])),
                      cache, query, i + 1)

_search_chart_analyses(cache, query) == ChartLoop(<<>>, cache, query, 1)

\* " ".join(link.text_chunks) is defined for a list of str and for a str,
\* whose items are its characters; it raises for a number, for None and for
\* a list with another item.  (The keys of a dict would be joined too; no
\* reply modelled here makes text_chunks a dict.)
Joinable(v) ==
    \/ v.t = "str"
    \/ v.t = "list" /\ \A i \in 1..Len(v.l) : v.l[i].t = "str"
Strings(v) ==
    IF v.t = "str" THEN [i \in 1..Len(v.s) |-> <<v.s[i]>>]
    ELSE [i \in 1..Len(v.l) |-> v.l[i].s]

\* _search_visual_text_links
RECURSIVE LinkLoop(_, _, _, _)
LinkLoop(results, links, query, i) ==
    IF i > Len(links) THEN [results |-> results, failed |-> FALSE]
    ELSE LET visual_id == links[i].key
             link == links[i].val
         IN  IF ~Joinable(link.text_chunks)
             THEN [results |-> results, failed |-> TRUE]
             ELSE LET combined_text == Join(Strings(link.text_chunks))
                      relevance == _calculate_text_relevance(query, combined_text)
                  IN  IF ~RatLt(Threshold, relevance)
                      THEN LinkLoop(results, links, query, i + 1)
                      ELSE IF ~IsNumber(link.confidence)
                      THEN [results |-> results, failed |-> TRUE]
                      ELSE LinkLoop(
                               Append(results,
                                   SearchResult(Lit.link_ \o visual_id,
                                       Lit.VisualTextLink \o Format(link.relationship) \o Lit.Paren,
                                       Lit.Relationship \o Format(link.relationship) \o Lit.DotSpace
                                           \o Prefix(combined_text, 300),
                                       "IMAGE",
                                       RatMul(relevance, Number(link.confidence)),
                                       [visual_id |-> visual_id,
                                        relationship |-> link.relationship,
                                        link_confidence |-> link.confidence])),
                               links, query, i + 1)

_search_visual_text_links(links, query) == LinkLoop(<<>>, links, query, 1)

\* A plausible slip: one bonus of 1.2 for every kind of visual metadata.
Rescore_OneBonus(result) ==
    LET visual == {"visual_enhancements", "chart_type", "relationship"}
        b == IF visual \cap DOMAIN result.metadata # {}
             THEN RatMul(result.confidence_score, Rat(12, 10))
             ELSE result.confidence_score
    IN  [result EXCEPT !.confidence_score = RatMin(b, One)]

\* A plausible slip: the three tests chained with elif, so that only the first
\* bonus that applies is taken.
Rescore_ElseIf(result) ==
    LET b0 == result.confidence_score
        b == IF "visual_enhancements" \in DOMAIN result.metadata
             THEN RatMul(b0, Rat(12, 10))
             ELSE IF "chart_type" \in DOMAIN result.metadata
                  THEN RatMul(b0, Rat(13, 10))
                  ELSE IF "relationship" \in DOMAIN result.metadata
                       THEN RatMul(b0, Rat(11, 10)) ELSE b0
    IN  [result EXCEPT !.confidence_score = RatMin(b, One)]

\* the loop of _rank_multimodal_results over one result
Rescore(result) ==
    LET b0 == result.confidence_score
        b1 == IF "visual_enhancements" \in DOMAIN result.metadata
              THEN RatMul(b0, Rat(12, 10)) ELSE b0
        b2 == IF "chart_type" \in DOMAIN result.metadata
              THEN RatMul(b1, Rat(13, 10)) ELSE b1
        b3 == IF "relationship" \in DOMAIN result.metadata
              THEN RatMul(b2, Rat(11, 10)) ELSE b2
    IN  [result EXCEPT !.confidence_score = RatMin(b3, One)]

\* list.sort(key, reverse=True): descending, equal keys keep their order.
\* Insert x behind the last element whose key is not below the key of x.
InsertDesc(sorted, x) ==
    LET ahead == {i \in 1..Len(sorted) :
                     ~RatLt(sorted[i].confidence_score, x.confidence_score)}
        n == Cardinality(ahead)
    IN  SubSeq(sorted, 1, n) \o <<x>> \o SubSeq(sorted, n + 1, Len(sorted))

RECURSIVE SortFrom(_, _, _)
SortFrom(sorted, l, i) ==
    IF i > Len(l) THEN sorted ELSE SortFrom(InsertDesc(sorted, l[i]), l, i + 1)

Reverse(l) == [i \in 1..Len(l) |-> l[Len(l) + 1 - i]]

\* A plausible slip: sort ascending and reverse, which turns the ties around.
SortDescending_ReversedAscending(l) == SortFrom(<<>>, Reverse(l), 1)

SortDescending(l) == SortFrom(<<>>, l, 1)

\* _rank_multimodal_results: [rescored, ranked], the list after the loop and
\* the list returned.  A SearchResult with a float score and a dict metadata
\* raises nowhere in the body.
_rank_multimodal_results(results) ==
    LET rescored == [i \in 1..Len(results) |-> Rescore(results[i])]
    IN  [rescored |-> rescored, ranked |-> SortDescending(rescored)]

\* multi_modal_search.  The outer try covers statements that no stage handler
\* covers; fault names the one at which an exception surfaces: "extend" is
\* enhanced_results.extend(chart_results), "log" is the logger.info after the
\* ranking, "none" is no exception.  The SearchResult objects of text_results
\* are changed in place by the enrichment and by the ranking, so text_results
\* in the outcome is the caller's list as it stands when the call returns.
SearchOutcome(fault, enhanced, charts, linked, rank) ==
    IF fault = "extend"
    THEN [returned |-> enhanced, handler |-> TRUE, text_results |-> enhanced,
          candidates |-> enhanced, chart_results |-> charts.results,
          chart_failed |-> charts.failed, links_searched |-> FALSE,
          link_results |-> <<>>, link_failed |-> FALSE]
    ELSE [returned |-> IF fault = "log" THEN SubSeq(rank.rescored, 1, Len(enhanced))
                       ELSE rank.ranked,
          handler |-> fault = "log",
          text_results |-> SubSeq(rank.rescored, 1, Len(enhanced)),
          candidates |-> rank.rescored, chart_results |-> charts.results,
          chart_failed |-> charts.failed, links_searched |-> TRUE,
          link_results |-> linked.results, link_failed |-> linked.failed]

\* enhanced, charts and linked are the outcomes of the three stages
RankCandidates(fault, enhanced, charts, linked) ==
    SearchOutcome(fault, enhanced, charts, linked,
                  _rank_multimodal_results(enhanced \o charts.results \o linked.results))

multi_modal_search(cache, links, query, text_results, image_results, fault) ==
    RankCandidates(fault,
                   [i \in 1..Len(text_results) |->
                       _enhance_text_with_visual_context(text_results[i],
                                                         image_results, cache)],
                   _search_chart_analyses(cache, query),
                   _search_visual_text_links(links, query))

----------------------------------------------------------------------------
(* multi_modal_search as an operation, on caches built by the other two *)

\* A plausible slip: the search takes the links it matched out of the link
\* cache (dict.pop instead of a read).
MultiModalSearch_PopsMatches(Queries, TextLists, ImageLists, Faults) ==
    /\ \E query \in Queries, text_results \in TextLists,
          image_results \in ImageLists, fault \in Faults :
        LET out == multi_modal_search(chart_cache, visual_text_links, query,
                                      text_results, image_results, fault)
        IN  /\ call' = [op |-> "search", query |-> query, text_results |-> text_results,
                        image_results |-> image_results, fault |-> fault]
            /\ ret' = [done |-> TRUE] @@ out
            /\ visual_text_links' =
                   IF out.link_results = <<>> THEN visual_text_links ELSE <<>>
    /\ UNCHANGED <<genai_client, chart_cache, uuid_next>>

MultiModalSearch(Queries, TextLists, ImageLists, Faults) ==
    /\ \E query \in Queries, text_results \in TextLists,
          image_results \in ImageLists, fault \in Faults :
        LET out == multi_modal_search(chart_cache, visual_text_links, query,
                                      text_results, image_results, fault)
        IN  /\ call' = [op |-> "search", query |-> query, text_results |-> text_results,
                        image_results |-> image_results, fault |-> fault]
            /\ ret' = [done |-> TRUE] @@ out
    /\ UNCHANGED <<genai_client, chart_cache, visual_text_links, uuid_next>>

(* The caches and requests the search is run on *)

MaxSearchCharts == 2


\* a stage-1 reply whose "type" is null
MetaNullType == PyDict([type |-> PyNone, confidence |-> PyFloat(9, 10)])

SearchRuns ==
    {<<JsonReply(MetaBar), JsonReply(TwoPoints), ProseReply(Txt.ax)>>,
     <<JsonReply(MetaPie), JsonReply(TwoPoints), ProseReply(Txt.abcd)>>,
     <<JsonReply(MetaNullType), JsonReply(TwoPoints), ProseReply(Txt.abc)>>}

\* a relationship record whose "text_chunks" is a number
RecBadChunks ==
    PyDict([relationship |-> PyStr(Txt.example), text_chunks |-> PyInt(5),
            confidence |-> PyFloat(6, 10)])

SearchLinkImageLists == {<<ImagePage5>>}
SearchLinkChunkLists == {<<ChunkPage2, ChunkPage4>>}
SearchLinkReplies ==
    {JsonReply(PyList(<<RecIllustration>>)),
     JsonReply(PyList(<<RecIllustration, RecExample>>)),
     JsonReply(PyList(<<RecBadChunks>>))}

SearchQueries == {Txt.Q10, Txt.ab}

TextResult1 ==
    SearchResult(Txt.t1, Txt.T, Txt.ab, "DOCUMENT", Rat(8, 10),
                 [document_id |-> Txt.d1, page_number |-> 5])

\* a text result of another document, scored like the bar chart candidate
TextResult2 ==
    SearchResult(Txt.t2, Txt.T, Txt.cd, "DOCUMENT", Rat(39, 100),
                 [document_id |-> Txt.d2, page_number |-> 9])

\* a text result whose metadata came with a chart_type and a relationship
TextResult3 ==
    SearchResult(Txt.t3, Txt.T, Txt.e, "DOCUMENT", Rat(1, 2),
                 [document_id |-> Txt.d1, page_number |-> 4,
                  chart_type |-> Lit.chart, relationship |-> Txt.example])

SearchTextLists == {<<>>, <<TextResult1>>, <<TextResult2, TextResult1>>}
SearchImageLists == {<<>>, <<ImagePage5>>}

\* six images, of which four are of d1 on the pages 4 to 6 (one of them
\* without a description)
ManyImages ==
    <<DocumentImage(Txt.i1, Txt.d2, 5, Txt.photo, Txt.gh),
      ImagePage5,
      ImagePage1,
      DocumentImage(Txt.up, Txt.d1, 4, Lit.graph, <<>>),
      DocumentImage(Txt.bar, Txt.d1, 6, Lit.diagram, Txt.cd),
      DocumentImage(Txt.pie, Txt.d1, 5, Txt.photo, Txt.ab)>>
SearchFaults == {"none", "extend", "log"}

InitSearch ==
    /\ genai_client \in BOOLEAN
    /\ chart_cache = <<>>
    /\ visual_text_links = <<>>
    /\ uuid_next = 0
    /\ call = NoCall
    /\ ret = NoRet

NextSearch ==
    \/ AnalyzeChart(SearchRuns, MaxSearchCharts)
    \/ CreateLinks(SearchLinkImageLists, SearchLinkChunkLists, SearchLinkReplies)
    \/ MultiModalSearch(SearchQueries, SearchTextLists, SearchImageLists, SearchFaults)
    \* among the text results a pair of which the first comes with a
    \* visual_enhancements key (it was enriched by an earlier search) and the
    \* second is on a page whose only image has no description
    \/ MultiModalSearch(
           {Txt.ab},
           {<<TextResult1>>, <<TextResult3>>,
            <<[TextResult1 EXCEPT !.metadata = [document_id |-> Txt.d1, page_number |-> 5,
                                                visual_enhancements |-> 5]],
              [TextResult2 EXCEPT !.metadata = [document_id |-> Txt.d1,
                                                page_number |-> 2]]>>},
           {<<>>, ManyImages}, {"none"})

SpecSearch == InitSearch /\ [][NextSearch]_vars

----------------------------------------------------------------------------
(* Claims about multi_modal_search *)

Searched == call.op = "search" /\ ret.done

\* the ids the two cache searches give their results
ChartId(key) == Lit.chart_ \o IntStr(key)
LinkId(visual_id) == Lit.link_ \o visual_id

HasId(results, id) == \E j \in 1..Len(results) : results[j].id = id

\* the relevance of a cached entry to the query of the call
ChartRelevance(i) ==
    _calculate_text_relevance(call.query, chart_cache[i].val.text_content)
LinkRelevance(i) ==
    _calculate_text_relevance(call.query, Join(Strings(visual_text_links[i].val.text_chunks)))

\* C3, as the specification states it: on the path through the outer handler
\* the list returned has the length and order of the caller's text_results
\* and every element has the content, metadata and confidence_score it had
\* before the call.  The code returns the same list, but its elements were
\* changed in place by the enrichment and the ranking that ran before the
\* exception.
C3_FailurePathReturnsOriginal ==
    (Searched /\ ret.handler) =>
        /\ Len(ret.returned) = Len(call.text_results)
        /\ \A i \in 1..Len(ret.returned) :
            /\ ret.returned[i].id = call.text_results[i].id
            /\ ret.returned[i].content = call.text_results[i].content
            /\ ret.returned[i].metadata = call.text_results[i].metadata
            /\ ret.returned[i].confidence_score = call.text_results[i].confidence_score

\* a list in the order the ranking gives the candidates: descending by score,
\* equal scores in the order of the candidate list, no score above 1
Position(candidates, id) == CHOOSE j \in 1..Len(candidates) : candidates[j].id = id

RankedFrom(results, candidates) ==
    /\ Len(results) = Len(candidates)
    /\ \A j \in 1..Len(candidates) : HasId(results, candidates[j].id)
    /\ \A i \in 1..Len(results) : RatLe(results[i].confidence_score, One)
    /\ \A i, j \in 1..Len(results) :
        i < j =>
            /\ RatLe(results[j].confidence_score, results[i].confidence_score)
            /\ RatEq(results[i].confidence_score, results[j].confidence_score)
                   => Position(candidates, results[i].id) < Position(candidates, results[j].id)

\* C5, as the specification states it: every list multi_modal_search returns
\* is in ranked order.  The list returned by the outer handler is the
\* caller's text_results in the caller's order.
C5_EveryReturnIsRanked ==
    Searched => RankedFrom(ret.returned, ret.candidates)

\* C5, amended: the list multi_modal_search returns from the ranking (every
\* return but the one of the outer handler) is in descending order of final
\* score, candidates of equal final score are in the order of the candidate
\* list (text results, chart results, link results), and no score is above 1.
C5_RankedReturnIsSortedAndStable ==
    (Searched /\ ~ret.handler) => RankedFrom(ret.returned, ret.candidates)

\* a ranked return where two text results changed places, a text result and
\* a chart result of equal score kept theirs, and a score was clamped to 1
C5_Witness ==
    /\ Searched /\ ~ret.handler
    /\ Len(call.text_results) = 2
    /\ call.text_results[1].id = Txt.t2
    /\ Position(ret.returned, Txt.t1) < Position(ret.returned, Txt.t2)
    /\ \E i, j \in 1..Len(ret.returned) :
        /\ i < j
        /\ ret.returned[i].id = Txt.t2
        /\ "chart_type" \in DOMAIN ret.returned[j].metadata
        /\ RatEq(ret.returned[i].confidence_score, ret.returned[j].confidence_score)
    /\ \E i \in 1..Len(chart_cache) :
        /\ HasId(ret.returned, ChartId(chart_cache[i].key))
        /\ RatLt(One, RatMul(RatMul(ChartRelevance(i), Number(chart_cache[i].val.confidence)),
                             Rat(13, 10)))

\* C6, as the specification states it: the chart-cache search and the
\* link-cache search give a result for a cached entry exactly when the
\* relevance of the entry is above 0.3.  An entry whose result cannot be
\* built ends the search, and it and the entries behind it are left out
\* whatever their relevance.
C6_ResultIffAboveThreshold ==
    Searched =>
        /\ \A i \in 1..Len(chart_cache) :
            HasId(ret.chart_results, ChartId(chart_cache[i].key))
                <=> RatLt(Rat(3, 10), ChartRelevance(i))
        /\ ret.links_searched =>
            \A i \in 1..Len(visual_text_links) :
                Joinable(visual_text_links[i].val.text_chunks) =>
                    (HasId(ret.link_results, LinkId(visual_text_links[i].key))
                        <=> RatLt(Rat(3, 10), LinkRelevance(i)))

\* C7: a chart-cache candidate in the list returned has the final score
\* min(relevance x confidence x 1.3, 1) and a link-cache candidate has
\* min(relevance x confidence x 1.1, 1).
C7_CacheCandidateScores ==
    Searched =>
        \A j \in 1..Len(ret.returned) :
            /\ \A i \in 1..Len(chart_cache) :
                ret.returned[j].id = ChartId(chart_cache[i].key) =>
                    ret.returned[j].confidence_score =
                        RatMin(RatMul(RatMul(ChartRelevance(i),
                                             Number(chart_cache[i].val.confidence)),
                                      Rat(13, 10)), One)
            /\ \A i \in 1..Len(visual_text_links) :
                ret.returned[j].id = LinkId(visual_text_links[i].key) =>
                    ret.returned[j].confidence_score =
                        RatMin(RatMul(RatMul(LinkRelevance(i),
                                             Number(visual_text_links[i].val.confidence)),
                                      Rat(11, 10)), One)

\* the example of the specification: relevance 0.5 and confidence 0.6 give a
\* chart candidate of 0.39, next to a link candidate of 0.33
C7_Witness ==
    /\ Searched
    /\ \E i \in 1..Len(chart_cache), j \in 1..Len(ret.returned) :
        /\ ret.returned[j].id = ChartId(chart_cache[i].key)
        /\ ChartRelevance(i) = Rat(1, 2)
        /\ chart_cache[i].val.confidence = PyFloat(6, 10)
        /\ ret.returned[j].confidence_score = Rat(39, 100)
    /\ \E i \in 1..Len(visual_text_links), j \in 1..Len(ret.returned) :
        /\ ret.returned[j].id = LinkId(visual_text_links[i].key)
        /\ LinkRelevance(i) = Rat(1, 2)
        /\ visual_text_links[i].val.confidence = PyFloat(6, 10)
        /\ ret.returned[j].confidence_score = Rat(33, 100)


\* C17, as the specification states it: when the chart-cache search or the
\* link-cache search of a call fails, no result of that stage is among the
\* candidates, while the other cache search gives a result for each of its
\* entries above the threshold and the ranking orders all the candidates.
\* The code keeps the results a stage built before the entry that failed.
C17_FailedStageContributesNothing ==
    (Searched /\ ~ret.handler) =>
        /\ ret.chart_failed =>
              /\ ret.chart_results = <<>>
              /\ \A i \in 1..Len(chart_cache) :
                    ~HasId(ret.candidates, ChartId(chart_cache[i].key))
        /\ ret.link_failed =>
              /\ ret.link_results = <<>>
              /\ \A i \in 1..Len(visual_text_links) :
                    ~HasId(ret.candidates, LinkId(visual_text_links[i].key))
        /\ (ret.chart_failed /\ ~ret.link_failed) =>
              \A i \in 1..Len(visual_text_links) :
                  RatLt(Threshold, LinkRelevance(i))
                      => HasId(ret.candidates, LinkId(visual_text_links[i].key))
        /\ (ret.link_failed /\ ~ret.chart_failed) =>
              \A i \in 1..Len(chart_cache) :
                  RatLt(Threshold, ChartRelevance(i))
                      => HasId(ret.candidates, ChartId(chart_cache[i].key))
        /\ Len(ret.candidates)
              = Len(call.text_results) + Len(ret.chart_results) + Len(ret.link_results)
        /\ RankedFrom(ret.returned, ret.candidates)

\* the product of the multipliers of the keys that the metadata carries
Bonus(metadata) ==
    RatMul(RatMul(IF "visual_enhancements" \in DOMAIN metadata THEN Rat(12, 10) ELSE One,
                  IF "chart_type" \in DOMAIN metadata THEN Rat(13, 10) ELSE One),
           IF "relationship" \in DOMAIN metadata THEN Rat(11, 10) ELSE One)

\* the score candidate j had when the ranking took it: the caller's score of
\* a text result, the score the cache search gave its result
ScoreBefore(j) ==
    LET n == Len(call.text_results)
        m == Len(ret.chart_results)
    IN  IF j <= n THEN call.text_results[j].confidence_score
        ELSE IF j <= n + m THEN ret.chart_results[j - n].confidence_score
             ELSE ret.link_results[j - n - m].confidence_score

\* C18: whenever the ranking ran, every candidate has the score
\* min(score before x product of the multipliers of its keys, 1), the
\* multipliers being 1.2 for visual_enhancements, 1.3 for chart_type and 1.1
\* for relationship; with none of the keys that is min(score before, 1).
C18_CumulativeBonuses ==
    (Searched /\ call.fault # "extend") =>
        \A j \in 1..Len(ret.candidates) :
            RatEq(ret.candidates[j].confidence_score,
                  RatMin(RatMul(ScoreBefore(j), Bonus(ret.candidates[j].metadata)), One))

\* One ranking with a candidate carrying all three keys, scored 0.5 before and
\* 0.5 x 1.2 x 1.3 x 1.1 = 0.858 after, and a chart candidate clamped to 1.
C18_Witness ==
    /\ Searched
    /\ call.fault = "none"
    /\ \E j \in 1..Len(ret.returned) :
          /\ ret.returned[j].id = Txt.t3
          /\ {"visual_enhancements", "chart_type", "relationship"}
                 \subseteq DOMAIN ret.returned[j].metadata
          /\ ret.returned[j].confidence_score = Rat(429, 500)
    /\ \E j \in 1..Len(ret.candidates) :
          /\ RatLt(One, RatMul(ScoreBefore(j), Bonus(ret.candidates[j].metadata)))
          /\ ret.candidates[j].confidence_score = One

\* the images of the call that are of the document of text result i and on
\* its page or a neighbouring page, in input order
RelatedImages(i) ==
    SelectSeq(call.image_results, LAMBDA img :
        /\ img.document_id = call.text_results[i].metadata["document_id"]
        /\ img.page_number - call.text_results[i].metadata["page_number"] \in {-1, 0, 1})

\* the fragment lists that the images picked[k..] may give: for each image its
\* description, if it has one, and then, for a chart, graph or diagram, at
\* most one fragment with the start of a cached description
RECURSIVE FragmentLists(_, _)
FragmentLists(picked, k) ==
    IF k > Len(picked) THEN {<<>>}
    ELSE LET own == IF picked[k].description = <<>> THEN <<>>
                    ELSE <<Lit.RelatedImage \o picked[k].description>>
             charts == IF picked[k].image_type \in {Lit.chart, Lit.graph, Lit.diagram}
                       THEN {<<Lit.ChartData \o Prefix(chart_cache[c].val.text_content, 200)>> :
                                c \in 1..Len(chart_cache)}
                       ELSE {}
         IN  {own \o chart \o rest : chart \in {<<>>} \cup charts,
                                     rest \in FragmentLists(picked, k + 1)}

\* C19: after a search, every text result is the caller's with the fragments
\* of the first three images of its document within one page of it, in input
\* order, appended to its content, and the number of these fragments as
\* visual_enhancements; with no fragment it has the caller's content and
\* metadata.
C19_EnrichmentSelection ==
    Searched =>
        \A i \in 1..Len(call.text_results) :
            \E fragments \in FragmentLists(Prefix(RelatedImages(i), 3), 1) :
                LET before == call.text_results[i]
                    after == ret.text_results[i]
                IN  IF fragments = <<>>
                    THEN after.content = before.content /\ after.metadata = before.metadata
                    ELSE /\ after.content
                            = before.content \o Lit.VisualContext \o Join(fragments)
                         /\ DOMAIN after.metadata
                            = DOMAIN before.metadata \cup {"visual_enhancements"}
                         /\ after.metadata["visual_enhancements"] = Len(fragments)
                         /\ \A key \in DOMAIN before.metadata \ {"visual_enhancements"} :
                               after.metadata[key] = before.metadata[key]

\* A text result with four images of its document within one page of it: the
\* first three are taken, one of them has no description, and two fragments
\* are counted.
C19_Witness ==
    /\ Searched
    /\ \E i \in 1..Len(call.text_results) :
          /\ Len(RelatedImages(i)) = 4
          /\ Len(RelatedImages(i)) < Len(call.image_results)
          /\ RelatedImages(i)[2].description = <<>>
          /\ ret.text_results[i].metadata["visual_enhancements"] = 2
          /\ ret.text_results[i].content
                = call.text_results[i].content \o Lit.VisualContext
                    \o Lit.RelatedImage \o Txt.xy \o Lit.Space \o Lit.RelatedImage \o Txt.cd

\* C21: a text result whose first three related images give no fragment (no
\* related image, or none with a description and no cached analysis found)
\* has the caller's content and metadata after the search; every text result
\* has the caller's id, title and source_type, a content that starts with the
\* caller's content, and the caller's metadata but for the
\* visual_enhancements key.
C21_EnrichmentFrame ==
    Searched =>
        \A i \in 1..Len(call.text_results) :
            LET before == call.text_results[i]
                after == ret.text_results[i]
            IN  /\ FragmentLists(Prefix(RelatedImages(i), 3), 1) = {<<>>}
                      => /\ after.content = before.content
                         /\ after.metadata = before.metadata
                /\ after.id = before.id
                /\ after.title = before.title
                /\ after.source_type = before.source_type
                /\ Prefix(after.content, Len(before.content)) = before.content
                /\ DOMAIN after.metadata \subseteq DOMAIN before.metadata \cup {"visual_enhancements"}
                /\ \A key \in DOMAIN before.metadata :
                      /\ key \in DOMAIN after.metadata
                      /\ key # "visual_enhancements" => after.metadata[key] = before.metadata[key]
                /\ after.metadata # before.metadata => after.content # before.content

\* One search with a result whose visual_enhancements 5 is overwritten by 2
\* as two fragments are appended, and a result that has a related image
\* without a description and is returned as it came.
C21_Witness ==
    /\ Searched
    /\ Len(call.text_results) = 2
    /\ "visual_enhancements" \in DOMAIN call.text_results[1].metadata
    /\ call.text_results[1].metadata["visual_enhancements"] = 5
    /\ ret.text_results[1].metadata["visual_enhancements"] = 2
    /\ Len(ret.text_results[1].content) > Len(call.text_results[1].content)
    /\ RelatedImages(2) = <<ImagePage1>>
    /\ ret.text_results[2].content = call.text_results[2].content
    /\ ret.text_results[2].metadata = call.text_results[2].metadata

\* the entries of the two caches whose relevance to the query is above 0.3
\* (of the links, those whose text can be put together)
MatchingCharts ==
    {i \in 1..Len(chart_cache) : RatLt(Rat(3, 10), ChartRelevance(i))}
MatchingLinks ==
    {i \in 1..Len(visual_text_links) :
        /\ Joinable(visual_text_links[i].val.text_chunks)
        /\ RatLt(Rat(3, 10), LinkRelevance(i))}

\* C29, as the specification states it: a search that returns from the
\* ranking returns every candidate exactly once; the candidates are the text
\* results in the caller's order, then one result for each chart-cache entry
\* above the threshold, then one for each such link-cache entry, so the
\* length returned is len(text_results) plus the two numbers of matching
\* entries.  A cache entry whose result cannot be built ends the search of
\* its cache, and the matching entries behind it give no candidate.
C29_ReturnCountsEveryMatch ==
    (Searched /\ ~ret.handler) =>
        LET n == Len(call.text_results)
        IN  /\ Len(ret.returned) = Len(ret.candidates)
            /\ \A j \in 1..Len(ret.candidates) :
                   Cardinality({i \in 1..Len(ret.returned) :
                                   ret.returned[i] = ret.candidates[j]}) = 1
            /\ \A j \in 1..n : ret.candidates[j].id = call.text_results[j].id
            /\ Len(ret.returned) >= n
            /\ \A i \in MatchingCharts :
                   HasId(ret.candidates, ChartId(chart_cache[i].key))
            /\ \A i \in MatchingLinks :
                   HasId(ret.candidates, LinkId(visual_text_links[i].key))
            /\ Len(ret.returned)
                   = n + Cardinality(MatchingCharts) + Cardinality(MatchingLinks)

----------------------------------------------------------------------------
(* The listings of main.py.  The service object exists, so the 503 of an   *)
(* uninitialised service is not taken.                                     *)

\* sub in s, for two str
Contains(sub, s) ==
    \E i \in 0..(Len(s) - Len(sub)) : SubSeq(s, i + 1, i + Len(sub)) = sub

\* v[:3]; it raises for a value that is neither a list nor a str
Sliceable(v) == v.t \in {"list", "str"}
FirstThree(v) == IF v.t = "list" THEN PyList(Prefix(v.l, 3)) ELSE PyStr(Prefix(v.s, 3))

\* the response for the links picked by the filter; a raise inside the
\* comprehension ends in HTTPException(500)
VisualLinksResponse(document_id, picked) ==
    IF \E i \in 1..Len(picked) : ~Sliceable(picked[i].val.text_chunks)
    THEN [status |-> 500]
    ELSE [status |-> 200, document_id |-> document_id,
          visual_text_links |->
              [i \in 1..Len(picked) |->
                  [visual_id |-> picked[i].val.visual_id,
                   relationship |-> picked[i].val.relationship,
                   confidence |-> picked[i].val.confidence,
                   text_snippets |-> FirstThree(picked[i].val.text_chunks)]],
          total_links |-> Len(picked)]

\* A plausible slip: the visual id has to start with the document id.
get_visual_text_links_ByPrefix(links, document_id) ==
    VisualLinksResponse(document_id,
        SelectSeq(links, LAMBDA entry :
            Prefix(entry.val.visual_id, Len(document_id)) = document_id))

get_visual_text_links(links, document_id) ==
    VisualLinksResponse(document_id,
        SelectSeq(links, LAMBDA entry : Contains(document_id, entry.val.visual_id)))

\* list_chart_analyses
list_chart_analyses(cache) ==
    [status |-> 200,
     charts |-> [i \in 1..Len(cache) |->
                    [id |-> cache[i].key, type |-> cache[i].val.chart_type,
                     confidence |-> cache[i].val.confidence,
                     facts_count |-> Len(cache[i].val.queryable_facts),
                     description_preview |->
                         Prefix(cache[i].val.text_content, 200) \o <<".", ".", ".">>]],
     total_count |-> Len(cache)]

ListLinks(DocumentIds) ==
    /\ \E document_id \in DocumentIds :
        /\ call' = [op |-> "list_links", document_id |-> document_id]
        /\ ret' = [done |-> TRUE] @@ get_visual_text_links(visual_text_links, document_id)
    /\ UNCHANGED <<genai_client, chart_cache, visual_text_links, uuid_next>>

ListCharts ==
    /\ call' = [op |-> "list_charts"]
    /\ ret' = [done |-> TRUE] @@ list_chart_analyses(chart_cache)
    /\ UNCHANGED <<genai_client, chart_cache, visual_text_links, uuid_next>>

(* The link listing on caches built from three images: one of d1 with d1   *)
(* in its id, one of d2 with d1 in its id, one of d1 without it            *)

ListingImageLists ==
    {<<ImagePage5>>,
     <<DocumentImage(Txt.d2 \o Txt.d1, Txt.d2, 5, Txt.photo, <<>>)>>,
     <<DocumentImage(Txt.photo, Txt.d1, 5, Txt.photo, <<>>)>>}

ListingReplies ==
    {JsonReply(PyList(<<RecIllustration>>)), JsonReply(PyList(<<RecExample>>)),
     JsonReply(PyList(<<RecBadChunks>>))}

NextListing ==
    \/ CreateLinks(ListingImageLists, {<<ChunkPage4>>}, ListingReplies)
    \/ ListLinks({Txt.d1, Txt.d2})

SpecListing == InitLinks /\ [][NextListing]_vars

Listed == call.op = "list_links" /\ ret.done /\ ret.status = 200

\* C15: the link listing gives, for a document id, the cached links whose
\* visual_id contains the document id as a substring, each once and no other
\* link.
C15_ListingBySubstring ==
    Listed =>
        /\ \A i \in 1..Len(visual_text_links) :
            LET link == visual_text_links[i].val
                rows == {j \in 1..Len(ret.visual_text_links) :
                            ret.visual_text_links[j].visual_id = link.visual_id}
            IN  /\ Contains(call.document_id, link.visual_id) => Cardinality(rows) = 1
                /\ ~Contains(call.document_id, link.visual_id) => rows = {}
                /\ \A j \in rows :
                    /\ ret.visual_text_links[j].relationship = link.relationship
                    /\ ret.visual_text_links[j].confidence = link.confidence
        /\ \A j \in 1..Len(ret.visual_text_links) :
            HasKey(visual_text_links, ret.visual_text_links[j].visual_id)
        /\ ret.total_links = Len(ret.visual_text_links)

\* the listing for d1 with all three links cached: it has the link of the
\* image of d2 and lacks the link of the image of d1 whose id has no "d1"
C15_Witness ==
    /\ Listed
    /\ call.document_id = Txt.d1
    /\ Len(visual_text_links) = 3
    /\ {ret.visual_text_links[j].visual_id : j \in 1..Len(ret.visual_text_links)}
           = {Txt.d1_i1, Txt.d2 \o Txt.d1}


----------------------------------------------------------------------------
(* Every operation, on the caches and requests of the search *)

NextService ==
    \/ NextSearch
    \/ ListLinks({Txt.d1})
    \/ ListCharts

SpecService == InitSearch /\ [][NextService]_vars

\* one step of the service, seen from the chart cache
ChartCacheStep ==
    LET n == Len(chart_cache)
        inserted == Len(chart_cache') = n + 1
    IN  /\ Len(chart_cache') \in {n, n + 1}
        /\ SubSeq(chart_cache', 1, n) = chart_cache
        /\ inserted =>
            /\ call'.op = "analyze"
            /\ \A i \in 1..n : chart_cache[i].key # chart_cache'[n + 1].key
            /\ chart_cache'[n + 1].val = ret'.analysis
        /\ (call'.op = "analyze" /\ ~ret'.handler) => inserted

\* C14: the chart cache is append-only.  A call of analyze_chart_to_text that
\* gets through its pipeline adds one analysis under a key the cache did not
\* hold, and no step of any operation (analysis, linking, search, the two
\* listings) changes, replaces or removes an entry the cache holds.
C14_ChartCacheAppendOnly == [][ChartCacheStep]_vars

\* a second analysis was added behind the first, which is as it was
C14_Witness ==
    /\ call.op = "analyze" /\ ret.done /\ ~ret.handler
    /\ Len(ret.cache_before) = 1
    /\ Len(chart_cache) = 2
    /\ chart_cache[1] = ret.cache_before[1]
    /\ chart_cache[2].key # chart_cache[1].key

\* one step of the service, seen from the state each operation shares
FrameStep ==
    /\ call'.op = "analyze" =>
          /\ visual_text_links' = visual_text_links
          /\ \/ chart_cache' = chart_cache
             \/ chart_cache' = Append(chart_cache, chart_cache'[Len(chart_cache')])
          \* the same replies on empty caches give the same analysis
          /\ LET alone == analyze_chart_to_text(genai_client, <<>>, 0,
                                                call'.r1, call'.r2, call'.r3)
             IN  ret'.analysis = alone.analysis /\ ret'.handler = alone.handler
    /\ call'.op = "links" =>
          /\ chart_cache' = chart_cache
          /\ uuid_next' = uuid_next
    /\ call'.op = "search" =>
          /\ chart_cache' = chart_cache
          /\ visual_text_links' = visual_text_links
          /\ ret'.chart_results = _search_chart_analyses(chart_cache, call'.query).results
          /\ ret'.links_searched =>
                 ret'.link_results
                     = _search_visual_text_links(visual_text_links, call'.query).results

\* C28: a call of analyze_chart_to_text leaves the link cache as it is, gives
\* the analysis it gives on empty caches, and changes the chart cache by at
\* most one appended entry; a call of create_visual_text_links leaves the
\* chart cache as it is; a call of multi_modal_search leaves both caches as
\* they are, and its chart and link results are those of the two caches as it
\* found them.
C28_OperationsKeepToTheirState == [][FrameStep]_vars

\* a search that found a result in each cache, after an analysis that did not
\* touch the link cache
C28_Witness ==
    /\ call.op = "search" /\ ret.done
    /\ ret.chart_results # <<>> /\ ret.link_results # <<>>
    /\ chart_cache # <<>> /\ visual_text_links # <<>>

----------------------------------------------------------------------------
(* Two create_visual_text_links coroutines on one event loop.  A coroutine *)
(* runs without interruption from one suspension to the next; it is        *)
(* suspended only in run_in_executor (line 682), reached through the await *)
(* of line 328.  Here call holds the two invocations with their positions  *)
(* and ret the cache writes in the order they were made.                   *)

\* The first image from images[k] on that has related chunks (the others are
\* skipped by `continue`), Len(images) + 1 when there is none
RECURSIVE NextAwait(_, _, _)
NextAwait(images, text_chunks, k) ==
    IF k > Len(images) THEN k
    ELSE IF RelatedChunks(images[k], text_chunks) = <<>>
         THEN NextAwait(images, text_chunks, k + 1)
         ELSE k

\* The coroutine from the loop head at images[k] to its next suspension or
\* to its return.  Without a client _analyze_visual_text_relationships
\* returns [] before any suspension, so the whole body runs in one piece.
RunToAwait(pass, client, links, ok, k) ==
    LET j == NextAwait(pass.images, pass.text_chunks, k)
    IN  IF ~ok
        THEN [pass EXCEPT !.pc = "done", !.links = links, !.returned = <<>>,
                          !.handler = TRUE]
        ELSE IF j > Len(pass.images) \/ ~client
             THEN [pass EXCEPT !.pc = "done", !.links = links, !.returned = links]
             ELSE [pass EXCEPT !.pc = "await", !.links = links, !.k = j]

\* create_visual_text_links is called: lines 314-328, up to the first await.
\* replies[k] is what the model will answer to the request made for images[k].
StartPass(p, ImageLists, ChunkLists, Replies) ==
    /\ call.pass[p].pc = "idle"
    /\ \E images \in ImageLists, text_chunks \in ChunkLists :
       \E replies \in [1..Len(images) -> Replies] :
          call' = [call EXCEPT !.pass[p] =
                      RunToAwait([pc |-> "idle", images |-> images,
                                  text_chunks |-> text_chunks, replies |-> replies,
                                  k |-> 1, links |-> <<>>, returned |-> <<>>,
                                  handler |-> FALSE],
                                 genai_client, <<>>, TRUE, 1)]
    /\ UNCHANGED <<genai_client, chart_cache, visual_text_links, uuid_next, ret>>

\* The model's answer arrives: lines 328-342 for images[k], then on to the
\* next await, to the return of line 345 or to the handler of line 347.
ResumePass(p) ==
    LET pass == call.pass[p]
    IN  /\ pass.pc = "await"
        /\ LET image == pass.images[pass.k]
               relationships ==
                   _analyze_visual_text_relationships(
                       genai_client, image, RelatedChunks(image, pass.text_chunks),
                       pass.replies[pass.k])
               linked == LinkImage([links |-> pass.links, cache |-> visual_text_links,
                                    ok |-> TRUE], image, relationships)
           IN  /\ visual_text_links' = linked.cache
               /\ call' = [call EXCEPT !.pass[p] =
                              RunToAwait(pass, genai_client, linked.links, linked.ok,
                                         pass.k + 1)]
               /\ ret' = [ret EXCEPT !.writes =
                             @ \o [i \in 1..(Len(linked.links) - Len(pass.links)) |->
                                     [pass |-> p,
                                      link |-> linked.links[Len(pass.links) + i]]]]
        /\ UNCHANGED <<genai_client, chart_cache, uuid_next>>

\* The service has a client: without one no pass is ever suspended.
InitPasses ==
    /\ genai_client = TRUE
    /\ chart_cache = <<>>
    /\ visual_text_links = <<>>
    /\ uuid_next = 0
    /\ call = [op |-> "passes", pass |-> [p \in 1..2 |-> [pc |-> "idle"]]]
    /\ ret = [done |-> FALSE, writes |-> <<>>]

NextPasses ==
    \E p \in 1..2 :
        \/ StartPass(p, {<<ImagePage5>>, <<ImagePage1>>, <<ImagePage1, ImagePage5>>},
                     {<<ChunkPage2, ChunkPage4>>},
                     {RaiseReply,
                      JsonReply(PyList(<<RecIllustration>>)),
                      JsonReply(PyList(<<RecExample, RecNoConfidence>>))})
        \/ ResumePass(p)

SpecPasses == InitPasses /\ [][NextPasses]_vars

PassesDone == \A p \in 1..2 : call.pass[p].pc = "done"

\* the ids of the images of pass p
ImageIds(p) == {call.pass[p].images[i].id : i \in 1..Len(call.pass[p].images)}

\* the cache after pass p and then pass q, each run from start to end
Sequential(p, q) ==
    create_visual_text_links(
        genai_client,
        create_visual_text_links(genai_client, <<>>, call.pass[p].images,
                                 call.pass[p].text_chunks, call.pass[p].replies).cache,
        call.pass[q].images, call.pass[q].text_chunks, call.pass[q].replies).cache

\* the last write made under the key
LastWrite(key) ==
    ret.writes[CHOOSE i \in 1..Len(ret.writes) :
                  /\ ret.writes[i].link.visual_id = key
                  /\ \A j \in (i + 1)..Len(ret.writes) :
                        ret.writes[j].link.visual_id # key]

\* C16: when two interleaved passes have both ended, (a) if they are about
\* different image ids the cache holds the same entries as after the one
\* pass and then the other, in either order, and (b) every entry of the
\* cache is exactly the link of the last write under its key, whichever pass
\* made it.
C16_InterleavedPasses ==
    PassesDone =>
        /\ (ImageIds(1) \cap ImageIds(2) = {}) =>
              /\ ToSet(visual_text_links) = ToSet(Sequential(1, 2))
              /\ ToSet(visual_text_links) = ToSet(Sequential(2, 1))
        /\ \A i \in 1..Len(visual_text_links) :
              visual_text_links[i].val = LastWrite(visual_text_links[i].key).link
        /\ {visual_text_links[i].key : i \in 1..Len(visual_text_links)}
              = {ret.writes[i].link.visual_id : i \in 1..Len(ret.writes)}

\* Both passes wrote under one id, the pass started on <<ImagePage5>> wrote
\* last, and the other pass wrote a different link under that id before it.
C16_Witness ==
    /\ PassesDone
    /\ \E i, j \in 1..Len(ret.writes) :
          /\ i < j
          /\ ret.writes[i].pass # ret.writes[j].pass
          /\ ret.writes[i].link.visual_id = ret.writes[j].link.visual_id
          /\ ret.writes[i].link # ret.writes[j].link
          /\ LastWrite(ret.writes[j].link.visual_id) = ret.writes[j]
          /\ Lookup(visual_text_links, ret.writes[j].link.visual_id) = ret.writes[j].link

\* Two passes about different ids whose writes came in the other order than
\* in the run of pass 1 and then pass 2: the same entries, stored in another
\* order.
C16_WitnessCommute ==
    /\ PassesDone
    /\ ImageIds(1) \cap ImageIds(2) = {}
    /\ Len(visual_text_links) = 2
    /\ visual_text_links # Sequential(1, 2)

----------------------------------------------------------------------------
(* analyze_chart_to_text stage by stage.  call holds the position of the   *)
(* run (pc 1 to 4: the stage about to start, 5: the assembly of lines      *)
(* 105-117, 6: returned), the values of the stages that have returned and  *)
(* the log of what happened so far.                                        *)

Event(ev, stage) == [ev |-> ev, stage |-> stage]

\* analyze_chart_to_text is called with the replies run the model will give
StartStages(Runs, limit) ==
    /\ call.op = "stages" => call.pc = 6
    /\ Len(chart_cache) < limit
    /\ \E run \in Runs :
          call' = [op |-> "stages", pc |-> 1, run |-> run, s |-> <<>>, log |-> <<>>,
                   cache_before |-> chart_cache]
    /\ ret' = NoRet
    /\ UNCHANGED <<genai_client, chart_cache, visual_text_links, uuid_next>>

\* A plausible slip: the analysis is put into the cache when the description
\* is there, before the facts are extracted.
StageStep_CachesEarly ==
    /\ call.op = "stages" /\ call.pc \in 1..4
    /\ LET s == call.s
           result ==
               CASE call.pc = 1 -> _identify_chart_structure(genai_client, call.run[1])
                 [] call.pc = 2 -> _extract_chart_data(genai_client, s[1].val, call.run[2])
                 [] call.pc = 3 -> _generate_chart_text_description(
                                       genai_client, s[1].val, s[2].val, call.run[3])
                 [] call.pc = 4 -> _extract_queryable_facts(s[1].val, s[2].val)
           early == call.pc = 3 /\ HasGet(s[1].val)
       IN  /\ call' = [call EXCEPT
                          !.pc = @ + 1,
                          !.s = Append(@, result),
                          !.log = @ \o <<Event("start", call.pc)>>
                                    \o (IF result.asked THEN <<Event("request", call.pc)>>
                                        ELSE <<>>)
                                    \o <<Event("return", call.pc)>>
                                    \o (IF early THEN <<Event("cache", 0)>> ELSE <<>>)]
           /\ chart_cache' =
                  IF early
                  THEN Append(chart_cache,
                              [key |-> uuid_next + 1,
                               val |-> ChartAnalysis(Get(s[1].val, "type", PyStr(Lit.unknown)),
                                                     s[2].val, result.val,
                                                     Get(s[1].val, "confidence", PyFloat(1, 2)))])
                  ELSE chart_cache
    /\ UNCHANGED <<genai_client, visual_text_links, uuid_next, ret>>

\* One `await self._...(...)` of lines 90-103: the stage at pc starts, asks
\* the model if it does, and returns its value.
StageStep ==
    /\ call.op = "stages" /\ call.pc \in 1..4
    /\ LET s == call.s
           result ==
               CASE call.pc = 1 -> _identify_chart_structure(genai_client, call.run[1])
                 [] call.pc = 2 -> _extract_chart_data(genai_client, s[1].val, call.run[2])
                 [] call.pc = 3 -> _generate_chart_text_description(
                                       genai_client, s[1].val, s[2].val, call.run[3])
                 [] call.pc = 4 -> _extract_queryable_facts(s[1].val, s[2].val)
       IN  call' = [call EXCEPT
                      !.pc = @ + 1,
                      !.s = Append(@, result),
                      !.log = @ \o <<Event("start", call.pc)>>
                                \o (IF result.asked THEN <<Event("request", call.pc)>>
                                    ELSE <<>>)
                                \o <<Event("return", call.pc)>>]
    /\ UNCHANGED <<genai_client, chart_cache, visual_text_links, uuid_next, ret>>

\* Lines 105-122: the analysis is assembled, cached and returned, or
\* chart_metadata.get raises and the handler returns the default analysis.
FinishStages ==
    /\ call.op = "stages" /\ call.pc = 5
    /\ LET out == Assemble(chart_cache, uuid_next, FALSE,
                           call.s[1], call.s[2], call.s[3], call.s[4])
       IN  /\ call' = [call EXCEPT !.pc = 6,
                                   !.log = @ \o <<Event(IF out.handler THEN "handler"
                                                        ELSE "cache", 0)>>]
           /\ ret' = [done |-> TRUE, analysis |-> out.analysis, handler |-> out.handler,
                      failed |-> out.failed, asked |-> out.asked,
                      chart_metadata |-> out.chart_metadata,
                      data_insights |-> out.data_insights,
                      cache_before |-> chart_cache]
           /\ chart_cache' = out.cache
           /\ uuid_next' = out.uuid
    /\ UNCHANGED <<genai_client, visual_text_links>>

NextStages ==
    \/ StartStages({RaiseReply, JsonReply(MetaBar), JsonReply(PyList(<<>>))}
                       \X {RaiseReply, JsonReply(TwoPoints), JsonReply(BadPoint)}
                       \X {RaiseReply, ProseReply(Txt.abc)},
                   MaxCharts)
    \/ StageStep
    \/ FinishStages

SpecStages == InitChart /\ [][NextStages]_vars

InStages == call.op = "stages"

\* the positions of the log whose event is one of evs
Positions(evs) == {i \in 1..Len(call.log) : call.log[i].ev \in evs}

\* C27: at every point of a run of analyze_chart_to_text, the starts and
\* returns of the stages alternate and go through the stages 1, 2, 3, 4 in
\* that order, so a stage starts only when the one before has returned; a
\* request to the model is made inside a stage from 1 to 3, at most once per
\* stage, so at most three times; the chart cache is as it was at the call
\* until the four stages have returned, and changes by one appended entry, if
\* at all, in the step after the return of stage 4; the run as a whole gives
\* what analyze_chart_to_text gives in one piece.
C27_StagesInOrder ==
    InStages =>
        LET log == call.log
            steps == SelectSeq(log, LAMBDA x : x.ev \in {"start", "return"})
            requests == Positions({"request"})
        IN  /\ \A i \in 1..Len(steps) :
                   steps[i] = Event(IF i % 2 = 1 THEN "start" ELSE "return", (i + 1) \div 2)
            /\ Len(steps) = 2 * (IF call.pc > 4 THEN 4 ELSE call.pc - 1)
            /\ \A i \in requests :
                   /\ log[i].stage \in 1..3
                   /\ log[i - 1] = Event("start", log[i].stage)
                   /\ log[i + 1] = Event("return", log[i].stage)
            /\ Cardinality(requests) <= 3
            /\ call.pc <= 5 => chart_cache = call.cache_before /\ Positions({"cache"}) = {}
            /\ \A i \in Positions({"cache", "handler"}) :
                   i = Len(log) /\ log[i - 1] = Event("return", 4)
            /\ call.pc = 6 =>
                   LET whole == analyze_chart_to_text(genai_client, call.cache_before,
                                                      uuid_next - Len(chart_cache)
                                                          + Len(call.cache_before),
                                                      call.run[1], call.run[2], call.run[3])
                   IN  /\ ret.done /\ ret.analysis = whole.analysis
                       /\ chart_cache = whole.cache
                       /\ ret.asked = [k \in 1..4 |-> \E i \in requests : log[i].stage = k]
                       /\ (chart_cache # call.cache_before) <=> Positions({"cache"}) # {}

\* A finished run with a client, whose three stages each asked the model
\* once and whose analysis was cached after the return of stage 4.
C27_Witness ==
    /\ InStages /\ call.pc = 6 /\ ~ret.handler
    /\ Cardinality(Positions({"request"})) = 3
    /\ Len(call.log) = 12
    /\ call.log[11] = Event("return", 4) /\ call.log[12] = Event("cache", 0)
    /\ Len(chart_cache) = Len(call.cache_before) + 1

----------------------------------------------------------------------------
(* Enrichment and the chart cache.  analyze_chart_to_text is given the     *)
(* picture of an image and nothing that identifies the image; the analyses *)
(* of this model are taken to be of the picture of ImagePage5.             *)

\* C20, as the specification states it: when ImagePage5, a chart, is among
\* the first three images picked for a text result and the chart cache holds
\* an analysis, the content of the text result has a fragment "Chart data: "
\* followed by the first 200 characters of the description of a cached
\* analysis.  The code looks for an analysis with an image_id attribute,
\* which no ChartAnalysis has.
C20_ChartFragmentAdded ==
    Searched =>
        \A i \in 1..Len(call.text_results) :
            (/\ chart_cache # <<>>
             /\ \E k \in 1..Len(Prefix(RelatedImages(i), 3)) :
                   RelatedImages(i)[k] = ImagePage5)
                => \E c \in 1..Len(chart_cache) :
                      Contains(Lit.ChartData \o Prefix(chart_cache[c].val.text_content, 200),
                               ret.text_results[i].content)

====
